---- MODULE Spec2Model ----
(***************************************************************************)
(* State-machine model of the PEPCO order-data extractor                   *)
(* (src/PEPCO_SS26_updated.py, with src/app.py as its near-identical       *)
(* variant).  Texts are TLA+ strings; Python's string and regex            *)
(* operations are modelled character by character with Len, SubSeq and \o. *)
(***************************************************************************)
EXTENDS Integers, Sequences, FiniteSets, TLC

VARIABLES
    pc,             \* position of the processing pass (one Streamlit rerun)
    doc,            \* the uploaded primary file as fitz opens it
    page1_text,     \* text of page 1
    page1,          \* captured groups of the page-1 patterns (None = no match)
    page2,          \* text of page 2
    colour,         \* value returned by extract_colour_from_page2
    page3,          \* text of page 3
    widgets,        \* the values of the text inputs, by widget key
    rendered,       \* the keys of the text inputs drawn in this pass
    file_pos,       \* read position of the primary file object
    today,          \* the date that datetime.today() gives when the pass starts
    midnight_at,    \* the first record built after midnight, 0: none in this pass
    washing_code,   \* the choice in the selectbox of washing codes
    material_table, \* the material translations table: material -> language -> text
    others,         \* pepco_section: the files uploaded after the primary one
    extra_order_ids,\* process_pepco_pdf: the argument extra_order_ids
    no_result,      \* extract_data_from_pdf returned None
    csv_offered,    \* the download button was drawn in this pass
    pln_messages,   \* st.error / st.warning texts of the price block of this pass
    skus,           \* extract_data_from_pdf: the 8-digit tokens of page 3
    valid_barcodes, \* extract_data_from_pdf: the 13-digit tokens kept
    result,         \* list returned by extract_data_from_pdf
    df,             \* the DataFrame of process_pepco_pdf after enrichment
    item_class,     \* argument of get_classification_type / get_dept_value
    class_type,     \* value returned by get_classification_type
    dept,           \* value returned by get_dept_value
    fn_value,       \* format_number: the argument value
    fn_currency,    \* format_number: the argument currency
    fn_ret,         \* format_number: how the call ended
    price_sheet,    \* the price sheet as pd.read_csv delivers it
    pln_value,      \* find_closest_price: the argument
    price_ret,      \* find_closest_price: how the call ended
    product_name,           \* format_product_translations: the arguments
    translation_row,
    selected_materials,
    material_translations,
    material_compositions,
    product_text,           \* format_product_translations: the value returned
    file,           \* extract_order_id_only: the argument, a file object
    file_ret,       \* extract_order_id_only: the value returned
    app_password,   \* st.secrets: the value of 'app_password', None without one
    env_password,   \* os.environ: the value of PEPCO_APP_PASSWORD, None without one
    session_state,  \* st.session_state: the keys password_correct and password
    submitted       \* the texts submitted in the password input, oldest first

vars == <<pc, doc, file_pos, today, midnight_at, washing_code, material_table, others, page1_text, page1, page2, colour, page3, widgets,
         rendered, file, file_ret, extra_order_ids, pln_messages, no_result, csv_offered, skus, valid_barcodes, result, df,
         item_class, class_type, dept, fn_value, fn_currency, fn_ret,
         price_sheet, pln_value, price_ret,
         product_name, translation_row, selected_materials,
         material_translations, material_compositions, product_text,
         app_password, env_password, session_state, submitted>>

passVars == <<doc, file_pos, today, midnight_at, washing_code, material_table, others, page1_text, page1, page2, colour, page3, widgets,
              rendered, extra_order_ids, pln_messages,
              no_result, csv_offered, skus, valid_barcodes, result, df>>
\* what a pass reads and does not change
inputVars == <<doc, others, page1_text, page2, page3, washing_code, material_table>>
classVars == <<item_class, class_type, dept>>
formatVars == <<fn_value, fn_currency, fn_ret>>
priceVars == <<price_sheet, pln_value, price_ret>>
fileVars == <<file, file_ret>>
authVars == <<app_password, env_password, session_state, submitted>>
translateVars == <<product_name, translation_row, selected_materials,
                   material_translations, material_compositions, product_text>>

\* Python's None; no text the model draws contains these characters.
None == "<None>"

-----------------------------------------------------------------------------
(* Python str operations *)

CharAt(s, i) == SubSeq(s, i, i)

\* the least number of a set of numbers
Least(S) == CHOOSE k \in S : \A j \in S : k <= j

\* Python: p in s
Contains(s, p) ==
    \E i \in 1..(Len(s) - Len(p) + 1) : SubSeq(s, i, i + Len(p) - 1) = p

UpperChars == "ABCDEFGHIJKLMNOPQRSTUVWXYZ"
LowerChars == "abcdefghijklmnopqrstuvwxyz"

Letters == 1..Len(UpperChars)

\* str.lower() and str.upper() on one character
LowerMap ==
    [ c \in { CharAt(UpperChars, i) : i \in Letters } |->
        CharAt(LowerChars, CHOOSE i \in Letters : CharAt(UpperChars, i) = c) ]

UpperMap ==
    [ c \in { CharAt(LowerChars, i) : i \in Letters } |->
        CharAt(UpperChars, CHOOSE i \in Letters : CharAt(LowerChars, i) = c) ]

LowerChar(c) == IF c \in DOMAIN LowerMap THEN LowerMap[c] ELSE c

UpperChar(c) == IF c \in DOMAIN UpperMap THEN UpperMap[c] ELSE c

RECURSIVE lower(_)
lower(s) ==
    IF s = "" THEN "" ELSE LowerChar(CharAt(s, 1)) \o lower(SubSeq(s, 2, Len(s)))

RECURSIVE upper(_)
upper(s) ==
    IF s = "" THEN "" ELSE UpperChar(CharAt(s, 1)) \o upper(SubSeq(s, 2, Len(s)))

IsSpace(c) == c \in {" ", "\t", "\n", "\r"}

RECURSIVE lstrip(_)
lstrip(s) ==
    IF s # "" /\ IsSpace(CharAt(s, 1)) THEN lstrip(SubSeq(s, 2, Len(s))) ELSE s

RECURSIVE rstrip(_)
rstrip(s) ==
    IF s # "" /\ IsSpace(CharAt(s, Len(s))) THEN rstrip(SubSeq(s, 1, Len(s) - 1)) ELSE s

\* Python: s.strip()
strip(s) == rstrip(lstrip(s))

\* Python: s.split(sep)[0] for a one-character sep
RECURSIVE SplitFirst(_, _)
SplitFirst(s, sep) ==
    IF s = "" \/ CharAt(s, 1) = sep THEN ""
    ELSE CharAt(s, 1) \o SplitFirst(SubSeq(s, 2, Len(s)), sep)

-----------------------------------------------------------------------------
(* Python re operations used on page 3 *)

IsDigit(c) == c \in {"0", "1", "2", "3", "4", "5", "6", "7", "8", "9"}

\* \w for the characters the model's texts are made of
IsWordChar(c) ==
    IsDigit(c) \/ c \in DOMAIN LowerMap \/ c \in DOMAIN UpperMap \/ c = "_"

AllDigits(s) == \A i \in 1..Len(s) : IsDigit(CharAt(s, i))

\* \b\d{n}\b matches at position i
DigitTokenAt(text, n, i) ==
    /\ i + n - 1 <= Len(text)
    /\ AllDigits(SubSeq(text, i, i + n - 1))
    /\ (i = 1 \/ ~IsWordChar(CharAt(text, i - 1)))
    /\ (i + n - 1 = Len(text) \/ ~IsWordChar(CharAt(text, i + n)))

\* re.findall(r"\b\d{n}\b", text), scanning from position i
RECURSIVE FindDigitTokens(_, _, _)
FindDigitTokens(text, n, i) ==
    IF i + n - 1 > Len(text) THEN <<>>
    ELSE IF DigitTokenAt(text, n, i)
         THEN <<SubSeq(text, i, i + n - 1)>> \o FindDigitTokens(text, n, i + n)
         ELSE FindDigitTokens(text, n, i + 1)

\* position of the first character at or after i that \s* does not consume
RECURSIVE SkipSpaces(_, _)
SkipSpaces(text, i) ==
    IF i <= Len(text) /\ IsSpace(CharAt(text, i)) THEN SkipSpaces(text, i + 1) ELSE i

\* barcode:\s*(\d{13}); matches at position i
AnnotationAt(text, i) ==
    /\ i + 7 <= Len(text)
    /\ SubSeq(text, i, i + 7) = "barcode:"
    /\ LET j == SkipSpaces(text, i + 8) IN
        /\ j + 13 <= Len(text)
        /\ AllDigits(SubSeq(text, j, j + 12))
        /\ CharAt(text, j + 13) = ";"

AnnotationGroup(text, i) ==
    LET j == SkipSpaces(text, i + 8) IN SubSeq(text, j, j + 12)

\* set(re.findall(r"barcode:\s*(\d{13});", text))
FindExcluded(text) ==
    { AnnotationGroup(text, i) : i \in { k \in 1..Len(text) : AnnotationAt(text, k) } }

-----------------------------------------------------------------------------
(* Classification & recode engine *)

\* get_classification_type with the last two rules in the other order
get_classification_type_mens_first(ic) ==
    IF ic = None \/ ic = "" THEN None
    ELSE LET s == lower(ic) IN
         IF Contains(s, "younger girls outerwear") THEN "yg"
         ELSE IF Contains(s, "baby boys outerwear") THEN "b"
         ELSE IF Contains(s, "baby girls outerwear") THEN "a"
         ELSE IF Contains(s, "baby boys essentials") THEN "d"
         ELSE IF Contains(s, "baby girls essentials") THEN "d_girls"
         ELSE IF Contains(s, "younger boys outerwear") THEN "yg"
         ELSE IF Contains(s, "older girls outerwear") THEN "yg"
         ELSE IF Contains(s, "older boys outerwear") THEN "yg"
         ELSE IF Contains(s, "mens outerwear") THEN "b"
         ELSE IF Contains(s, "ladies outerwear") THEN "a"
         ELSE None

\* get_classification_type without its last rule
get_classification_type_without_mens(ic) ==
    IF ic = None \/ ic = "" THEN None
    ELSE LET s == lower(ic) IN
         IF Contains(s, "younger girls outerwear") THEN "yg"
         ELSE IF Contains(s, "baby boys outerwear") THEN "b"
         ELSE IF Contains(s, "baby girls outerwear") THEN "a"
         ELSE IF Contains(s, "baby boys essentials") THEN "d"
         ELSE IF Contains(s, "baby girls essentials") THEN "d_girls"
         ELSE IF Contains(s, "younger boys outerwear") THEN "yg"
         ELSE IF Contains(s, "older girls outerwear") THEN "yg"
         ELSE IF Contains(s, "older boys outerwear") THEN "yg"
         ELSE IF Contains(s, "ladies outerwear") THEN "a"
         ELSE None

get_classification_type(ic) ==
    IF ic = None \/ ic = "" THEN None
    ELSE LET s == lower(ic) IN
         IF Contains(s, "younger girls outerwear") THEN "yg"
         ELSE IF Contains(s, "baby boys outerwear") THEN "b"
         ELSE IF Contains(s, "baby girls outerwear") THEN "a"
         ELSE IF Contains(s, "baby boys essentials") THEN "d"
         ELSE IF Contains(s, "baby girls essentials") THEN "d_girls"
         ELSE IF Contains(s, "younger boys outerwear") THEN "yg"
         ELSE IF Contains(s, "older girls outerwear") THEN "yg"
         ELSE IF Contains(s, "older boys outerwear") THEN "yg"
         ELSE IF Contains(s, "ladies outerwear") THEN "a"
         ELSE IF Contains(s, "mens outerwear") THEN "b"
         ELSE None

\* Python: any(x in s for x in phrases)
AnyIn(s, phrases) == \E x \in phrases : Contains(s, x)

\* get_dept_value testing the phrases against the text as given (no lower-casing)
get_dept_value_case_sensitive(ic) ==
    IF ic = None \/ ic = "" THEN ""
    ELSE LET s == ic IN
         IF AnyIn(s, {"baby boys outerwear", "baby girls outerwear",
                      "baby boys essentials", "baby girls essentials"}) THEN "BABY"
         ELSE IF AnyIn(s, {"younger boys outerwear", "younger girls outerwear"}) THEN "KIDS"
         ELSE IF AnyIn(s, {"older girls outerwear", "older boys outerwear"}) THEN "TEENS"
         ELSE IF Contains(s, "ladies outerwear") THEN "WOMEN"
         ELSE IF Contains(s, "mens outerwear") THEN "MEN"
         ELSE ""

get_dept_value(ic) ==
    IF ic = None \/ ic = "" THEN ""
    ELSE LET s == lower(ic) IN
         IF AnyIn(s, {"baby boys outerwear", "baby girls outerwear",
                      "baby boys essentials", "baby girls essentials"}) THEN "BABY"
         ELSE IF AnyIn(s, {"younger boys outerwear", "younger girls outerwear"}) THEN "KIDS"
         ELSE IF AnyIn(s, {"older girls outerwear", "older boys outerwear"}) THEN "TEENS"
         ELSE IF Contains(s, "ladies outerwear") THEN "WOMEN"
         ELSE IF Contains(s, "mens outerwear") THEN "MEN"
         ELSE ""

\* modify_collection with 'older boys outerwear' left out of the first test
modify_collection_younger_only(collection, ic) ==
    IF ic = None \/ ic = "" THEN collection
    ELSE LET s == lower(ic) IN
         IF AnyIn(s, {"younger boys outerwear"})
         THEN collection \o " B"
         ELSE IF AnyIn(s, {"older girls outerwear", "younger girls outerwear"})
         THEN collection \o " G"
         ELSE collection

modify_collection(collection, ic) ==
    IF ic = None \/ ic = "" THEN collection
    ELSE LET s == lower(ic) IN
         IF AnyIn(s, {"younger boys outerwear", "older boys outerwear"})
         THEN collection \o " B"
         ELSE IF AnyIn(s, {"older girls outerwear", "younger girls outerwear"})
         THEN collection \o " G"
         ELSE collection

COLLECTION_MAPPING ==
    [ b |-> << <<"CROCO CLUB", "MODERN 1">>, <<"LITTLE SAILOR", "MODERN 2">>,
               <<"EXPLORE THE WORLD", "MODERN 3">>, <<"JURASIC ADVENTURE", "MODERN 4">>,
               <<"WESTERN SPIRIT", "CLASSIC 1">>, <<"SUMMER FUN", "CLASSIC 2">> >>,
      a |-> << <<"Rainbow Girl", "MODERN 1">>, <<"NEONS PICNIC", "MODERN 2">>,
               <<"COUNTRY SIDE", "ROMANTIC 2">>, <<"ESTER GARDENG", "ROMANTIC 3">> >>,
      d |-> << <<"LITTLE TREASURE", "MODERN 1">>, <<"DINO FRIENDS", "CLASSIC 1">>,
               <<"EXOTIC ANIMALS", "CLASSIC 2">> >>,
      d_girls |-> << <<"SWEEET PASTELS", "MODERN 1">>, <<"PORCELAIN", "ROMANTIC 2">>,
                     <<"SUMMER VIBE", "ROMANTIC 3">> >>,
      yg |-> << <<"CUTE_JUMP", "COLLECTION_1">>, <<"SWEET_HEART", "COLLECTION_2">>,
                <<"DAISY", "COLLECTION_3">>, <<"SPECIAL OCC", "COLLECTION_4">>,
                <<"LILALOV", "COLLECTION_5">>, <<"COOL GIRL", "COLLECTION_6">>,
                <<"DEL MAR", "COLLECTION_7">> >> ]

\* the loop over COLLECTION_MAPPING[class_type].items() run from the last pair
\* to the first, so that the last matching pair decides
RECURSIVE RecodeLoop_last_match(_, _, _)
RecodeLoop_last_match(pairs, k, collection_value) ==
    LET j == Len(pairs) + 1 - k IN
    IF k > Len(pairs) THEN collection_value
    ELSE IF Contains(upper(collection_value), upper(pairs[j][1]))
         THEN pairs[j][2]
         ELSE RecodeLoop_last_match(pairs, k + 1, collection_value)

\* the loop over COLLECTION_MAPPING[class_type].items(), from pair k on
RECURSIVE RecodeLoop(_, _, _)
RecodeLoop(pairs, k, collection_value) ==
    IF k > Len(pairs) THEN collection_value
    ELSE IF Contains(upper(collection_value), upper(pairs[k][1]))
         THEN pairs[k][2]
         ELSE RecodeLoop(pairs, k + 1, collection_value)

\* extract_data_from_pdf: the collection recode
RecodeCollection(collection_value, ct) ==
    IF ct # None /\ ct # "" /\ ct \in DOMAIN COLLECTION_MAPPING
    THEN RecodeLoop(COLLECTION_MAPPING[ct], 1, collection_value)
    ELSE collection_value

Min(a, b) == IF a <= b THEN a ELSE b
Max(a, b) == IF a >= b THEN a ELSE b

\* pairing that goes on to the end of the longer list, None filling the gaps
zip_longest(xs, ys) ==
    [ i \in 1..Max(Len(xs), Len(ys)) |->
        << IF i <= Len(xs) THEN xs[i] ELSE None, IF i <= Len(ys) THEN ys[i] ELSE None >> ]

\* Python: zip(xs, ys)
zip(xs, ys) == [ i \in 1..Min(Len(xs), Len(ys)) |-> <<xs[i], ys[i]>> ]

\* Python: [x for x in xs if x not in excluded], dropping one occurrence only
RECURSIVE FilterExcluded_once(_, _)
FilterExcluded_once(xs, excluded) ==
    IF xs = <<>> THEN <<>>
    ELSE IF Head(xs) \in excluded
         THEN FilterExcluded_once(Tail(xs), excluded \ {Head(xs)})
         ELSE <<Head(xs)>> \o FilterExcluded_once(Tail(xs), excluded)

\* Python: [b for b in all_barcodes if b not in excluded]
FilterExcluded(xs, excluded) == SelectSeq(xs, LAMBDA x : x \notin excluded)

\* U+2022, the bullet of the display strings
Bullet == "*"

-----------------------------------------------------------------------------
(* Python values and number formatting *)

\* Finite floats are decimal numbers with two fraction digits, held as a whole
\* number of hundredths; inf, -inf and nan are values of their own.
Float(c) == [kind |-> "float", n |-> c, text |-> ""]
Inf(sign) == [kind |-> "inf", n |-> sign, text |-> ""]
NaN == [kind |-> "nan", n |-> 0, text |-> ""]
Str(t) == [kind |-> "str", n |-> 0, text |-> t]
NoneValue == [kind |-> "none", n |-> 0, text |-> ""]

\* how a call ends: it returns ret, or exception exc leaves it
Return(r) == [exc |-> "", ret |-> r]
Raise(e) == [exc |-> e, ret |-> None]

Digits == "0123456789"

Abs(n) == IF n < 0 THEN -n ELSE n

\* str(n) for an int n >= 0
RECURSIVE NatToStr(_)
NatToStr(n) ==
    IF n < 10 THEN CharAt(Digits, n + 1)
    ELSE NatToStr(n \div 10) \o CharAt(Digits, (n % 10) + 1)

\* str(n) for an int
IntToStr(n) == IF n < 0 THEN "-" \o NatToStr(-n) ELSE NatToStr(n)

\* int(s) for a run of digits
RECURSIVE DigitsToNat(_)
DigitsToNat(s) ==
    IF s = "" THEN 0
    ELSE 10 * DigitsToNat(SubSeq(s, 1, Len(s) - 1))
         + (CHOOSE d \in 0..9 : CharAt(Digits, d + 1) = CharAt(s, Len(s)))

\* the ',' option of the format mini-language on a run of digits
RECURSIVE Group3(_)
Group3(s) ==
    IF Len(s) <= 3 THEN s
    ELSE Group3(SubSeq(s, 1, Len(s) - 3)) \o "," \o SubSeq(s, Len(s) - 2, Len(s))

TwoDigits(n) == CharAt(Digits, (n \div 10) + 1) \o CharAt(Digits, (n % 10) + 1)

\* f"{v:,.2f}"
Format2f(v) ==
    IF v.kind = "inf" THEN (IF v.n < 0 THEN "-inf" ELSE "inf")
    ELSE IF v.kind = "nan" THEN "nan"
    ELSE (IF v.n < 0 THEN "-" ELSE "")
         \o Group3(NatToStr(Abs(v.n) \div 100)) \o "." \o TwoDigits(Abs(v.n) % 100)

\* str(v)
PyStr(v) ==
    IF v.kind = "str" THEN v.text
    ELSE IF v.kind = "none" THEN "None"
    ELSE IF v.kind = "inf" THEN (IF v.n < 0 THEN "-inf" ELSE "inf")
    ELSE IF v.kind = "nan" THEN "nan"
    ELSE (IF v.n < 0 THEN "-" ELSE "") \o NatToStr(Abs(v.n) \div 100) \o "."
         \o (IF Abs(v.n) % 10 = 0 THEN CharAt(Digits, ((Abs(v.n) % 100) \div 10) + 1)
             ELSE TwoDigits(Abs(v.n) % 100))

\* Python: s.replace(old, new) for a one-character old
RECURSIVE Replace(_, _, _)
Replace(s, old, new) ==
    IF s = "" THEN ""
    ELSE (IF CharAt(s, 1) = old THEN new ELSE CharAt(s, 1))
         \o Replace(SubSeq(s, 2, Len(s)), old, new)

\* Python: s.split(sep) for a one-character sep
RECURSIVE Split(_, _)
Split(s, sep) ==
    LET first == SplitFirst(s, sep) IN
    IF Len(first) = Len(s) THEN <<s>>
    ELSE <<first>> \o Split(SubSeq(s, Len(first) + 2, Len(s)), sep)

\* Python: sep.join(parts)
RECURSIVE Join(_, _)
Join(parts, sep) ==
    IF Len(parts) = 0 THEN ""
    ELSE IF Len(parts) = 1 THEN parts[1]
    ELSE parts[1] \o sep \o Join(Tail(parts), sep)

\* float(s) for a text s: white space around it and a sign are allowed; inf,
\* infinity and nan are read in any case; a decimal is digits with at most one
\* point (the model's texts carry at most two fraction digits, more are cut;
\* exponents and digit-group underscores are not modelled)
ParseFloat(s) ==
    LET t == lower(strip(s))
        signed == t # "" /\ CharAt(t, 1) \in {"+", "-"}
        sign == IF signed /\ CharAt(t, 1) = "-" THEN -1 ELSE 1
        body == IF signed THEN SubSeq(t, 2, Len(t)) ELSE t
        parts == Split(body, ".")
        whole == parts[1]
        frac == IF Len(parts) = 2 THEN parts[2] ELSE ""
        cents == 100 * DigitsToNat(whole) + DigitsToNat(SubSeq(frac \o "00", 1, 2))
    IN IF body \in {"inf", "infinity"} THEN Return(Inf(sign))
       ELSE IF body = "nan" THEN Return(NaN)
       ELSE IF /\ Len(parts) <= 2
               /\ AllDigits(whole) /\ AllDigits(frac)
               /\ Len(whole) + Len(frac) > 0
            THEN Return(Float(sign * cents))
       ELSE Raise("ValueError")

\* float(v)
PyFloat(v) ==
    IF v.kind = "str" THEN ParseFloat(v.text)
    ELSE IF v.kind = "none" THEN Raise("TypeError")
    ELSE Return(v)

\* int(v) for a float v: towards zero; no int for inf and nan
PyInt(v) ==
    IF v.kind = "inf" THEN Raise("OverflowError")
    ELSE IF v.kind = "nan" THEN Raise("ValueError")
    ELSE Return((IF v.n < 0 THEN -1 ELSE 1) * (Abs(v.n) \div 100))

TwoDecimalCurrencies == {"EUR", "BGN", "BAM", "RON", "PLN"}

\* what the except clause of format_number does with exception e
FormatExcept(e, value) ==
    IF e \in {"ValueError", "TypeError"} THEN Return(PyStr(value)) ELSE Raise(e)

\* format_number after the isinstance branch: value is the rebound variable
FormatBody(value, currency) ==
    LET f == PyFloat(value) IN
    IF f.exc # "" THEN FormatExcept(f.exc, value)
    ELSE IF currency \in TwoDecimalCurrencies
    THEN LET formatted == Replace(Format2f(f.ret), ".", ",") IN
         IF Contains(formatted, ",")
         THEN LET parts == Split(formatted, ",") IN
              Return(Join([parts EXCEPT ![1] = Replace(parts[1], ".", "")], ","))
         ELSE Return(formatted)
    ELSE LET i == PyInt(f.ret) IN
         IF i.exc # "" THEN FormatExcept(i.exc, value) ELSE Return(IntToStr(i.ret))

format_number(value, currency) ==
    IF value.kind = "str"
    THEN LET f == ParseFloat(Replace(value.text, ",", ".")) IN
         IF f.exc # "" THEN FormatExcept(f.exc, value) ELSE FormatBody(f.ret, currency)
    ELSE FormatBody(value, currency)

-----------------------------------------------------------------------------
(* Price lookup *)

\* pandas: column.dropna().tolist()
dropna(column) == SelectSeq(column, LAMBDA v : v.kind \notin {"nan", "none"})

\* the currency columns of the sheet, in df.columns order
SheetColumns == <<"PLN", "EUR", "CZK">>

OtherColumns == SelectSeq(SheetColumns, LAMBDA c : c # "PLN")

\* load_price_data: no data for an empty sheet, else every column without its blanks
load_price_data(sheet) ==
    IF Len(sheet["PLN"]) = 0
    THEN [loaded |-> FALSE, data |-> [c \in {} |-> <<>>]]
    ELSE [loaded |-> TRUE,
          data |-> [c \in DOMAIN sheet |-> dropna(sheet[c])]]

\* Python: xs.index(x)
IndexOf(xs, x) == Least({ i \in DOMAIN xs : xs[i] = x })

NoPrices == [c \in {"EUR", "CZK"} |-> ""]

\* how find_closest_price ends: status is "None" (returned None), "dict"
\* (returned prices) or the name of the exception that left it
PriceNone == [status |-> "None", prices |-> NoPrices]
PriceRaise(e) == [status |-> e, prices |-> NoPrices]
PriceDict(d) == [status |-> "dict", prices |-> d]

\* a lookup that falls back on the row whose PLN value is nearest to x
LookupRow_nearest(available_pln_values, x) ==
    IF available_pln_values = <<>> THEN 0
    ELSE CHOOSE i \in DOMAIN available_pln_values :
            \A j \in DOMAIN available_pln_values :
               \/ Abs(available_pln_values[i].n - x.n) < Abs(available_pln_values[j].n - x.n)
               \/ /\ Abs(available_pln_values[i].n - x.n) = Abs(available_pln_values[j].n - x.n)
                  /\ i <= j

\* find_closest_price: the 'not in' test and .index(); 0 stands for not found
LookupRow(available_pln_values, x) ==
    IF \A i \in DOMAIN available_pln_values : available_pln_values[i] # x
    THEN 0
    ELSE IndexOf(available_pln_values, x)

\* find_closest_price: format_number(values[idx], currency) for one column
PriceCell(data, c, idx) ==
    IF idx > Len(data[c]) THEN Raise("IndexError") ELSE format_number(data[c][idx], c)

\* find_closest_price: the dict comprehension over the columns other than
\* PLN, from column k on; the first exception ends it
RECURSIVE BuildPrices(_, _, _, _)
BuildPrices(data, idx, k, acc) ==
    IF k > Len(OtherColumns) THEN PriceDict(acc)
    ELSE LET c == OtherColumns[k]
             r == PriceCell(data, c, idx)
         IN IF r.exc \in {"ValueError", "TypeError"} THEN PriceNone
            ELSE IF r.exc # "" THEN PriceRaise(r.exc)
            ELSE BuildPrices(data, idx, k + 1, [acc EXCEPT ![c] = r.ret])

find_closest_price(sheet, pln) ==
    LET price_data == load_price_data(sheet) IN
    IF ~price_data.loaded \/ "PLN" \notin DOMAIN price_data.data THEN PriceNone
    ELSE LET x == PyFloat(pln)
             available_pln_values == price_data.data["PLN"]
         IN IF x.exc # "" THEN PriceNone
            ELSE IF LookupRow(available_pln_values, x.ret) = 0 THEN PriceNone
            ELSE BuildPrices(price_data.data, LookupRow(available_pln_values, x.ret),
                             1, NoPrices)

-----------------------------------------------------------------------------
(* Product-name translations *)

\* pd.notna
notna(v) == v.kind \notin {"nan", "none"}

\* dict.get(k, default)
DictGet(d, k, default) == IF k \in DOMAIN d THEN d[k] ELSE default

\* str.endswith
endswith(s, p) == Len(s) >= Len(p) /\ SubSeq(s, Len(s) - Len(p) + 1, Len(s)) = p

\* the suffix sentences (s stands for U+0161)
country_suffixes ==
    [ BiH |-> " Sastav materijala na usivenoj etiketi.",
      RS |-> " Sastav materijala nalazi se na usivenoj etiketi." ]

language_order ==
    << "AL", "BG", "BiH", "CZ", "DE", "EE", "ES",
       "GR", "HR", "HU", "IT", "LT", "LV", "MK",
       "PL", "PT", "RO", "RS", "SI", "SK" >>

\* en_text
EnglishText(name, row) == IF notna(row["EN"]) THEN PyStr(row["EN"]) ELSE name

\* the loop body of format_product_translations: text as first assigned
LanguageText_no_fallback(lang, name, row) ==
    IF lang = "ES"
    THEN IF notna(row["ES_CA"]) THEN PyStr(row["ES"]) \o " / " \o PyStr(row["ES_CA"])
         ELSE PyStr(row["ES"])
    ELSE IF notna(row[lang]) THEN PyStr(row[lang])
    ELSE ""

LanguageText(lang, name, row) ==
    IF lang = "ES"
    THEN IF notna(row["ES_CA"]) THEN PyStr(row["ES"]) \o " / " \o PyStr(row["ES_CA"])
         ELSE PyStr(row["ES"])
    ELSE IF notna(row[lang]) THEN PyStr(row[lang])
    ELSE name

\* the loop body: text after the material block.  selected and translations
\* are only tested for truth, so None and the empty value are one value here
MaterialText(text, lang, selected, translations, compositions) ==
    IF selected # <<>> /\ DOMAIN translations # {} /\ lang \in {"AL", "BG", "MK", "RS"}
    THEN LET material_text == DictGet(translations, lang, "") IN
         IF material_text # ""
         THEN IF DOMAIN compositions # {}
              THEN LET composition_text == DictGet(compositions, lang, "") IN
                   IF composition_text # "" THEN text \o ": " \o composition_text
                   ELSE text
              ELSE text \o ": " \o material_text
         ELSE text
    ELSE text

\* the loop body: text after the suffix block
SuffixText_always_period(text, lang) ==
    IF lang \in DOMAIN country_suffixes
    THEN text \o "." \o country_suffixes[lang]
    ELSE text

SuffixText(text, lang) ==
    IF lang \in DOMAIN country_suffixes
    THEN (IF ~endswith(text, ".") THEN text \o "." ELSE text) \o country_suffixes[lang]
    ELSE text

Segment(lang, name, row, selected, translations, compositions) ==
    "|" \o lang \o "| "
    \o SuffixText(MaterialText(LanguageText(lang, name, row), lang,
                               selected, translations, compositions), lang)

format_product_translations_found(name, row, selected, translations, compositions) ==
    LET kept == SelectSeq(language_order, LAMBDA l : l = "ES" \/ notna(row[l])) IN
    Join(<< "|EN| " \o EnglishText(name, row) >>
         \o [ i \in DOMAIN kept |->
                Segment(kept[i], name, row, selected, translations, compositions) ],
         " ")

format_product_translations(name, row, selected, translations, compositions) ==
    Join(<< "|EN| " \o EnglishText(name, row) >>
         \o [ i \in DOMAIN language_order |->
                Segment(language_order[i], name, row, selected, translations,
                        compositions) ],
         " ")

-----------------------------------------------------------------------------
(* The colour of page 2 *)

\* the keywords of boilerplate lines (n stands for U+0144)
skip_keywords ==
    << "PURCHASE", "COLOUR", "TOTAL", "PANTONE", "SUPPLIER",
       "PRICE", "ORDERED", "SIZES", "TPG", "TPX", "USD", "NIP",
       "PEPCO", "Poland", "ul. Strzeszynska 73A, 60-479 Poznan",
       "NIP 782-21-31-157" >>

\* [line.strip() for line in text.splitlines() if line.strip()], for texts
\* whose line boundaries are "\n"
StrippedLines(text) ==
    LET lines == Split(text, "\n")
        stripped == [ i \in DOMAIN lines |-> strip(lines[i]) ]
    IN SelectSeq(stripped, LAMBDA line : line # "")

\* all(keyword.lower() not in line.lower() for keyword in skip_keywords)
NoKeyword(line) ==
    \A lowered \in {lower(line)} :
        \A k \in DOMAIN skip_keywords : ~Contains(lowered, lower(skip_keywords[k]))

\* re.match(r"^[\d\s,./-]+$", line)
IsNumericLine(line) ==
    /\ line # ""
    /\ \A i \in 1..Len(line) :
          \/ IsDigit(CharAt(line, i))
          \/ IsSpace(CharAt(line, i))
          \/ CharAt(line, i) \in {",", ".", "/", "-"}

filtered_lines(text) ==
    SelectSeq(StrippedLines(text), LAMBDA line : NoKeyword(line) /\ ~IsNumericLine(line))

\* re.sub(r'[\d\.\)\(]+', '', s)
RECURSIVE RemoveDigitsDotsParens(_)
RemoveDigitsDotsParens(s) ==
    IF s = "" THEN ""
    ELSE (IF IsDigit(CharAt(s, 1)) \/ CharAt(s, 1) \in {".", ")", "("}
          THEN "" ELSE CharAt(s, 1))
         \o RemoveDigitsDotsParens(SubSeq(s, 2, Len(s)))

\* the cleaning of the line taken, without the upper-casing
CleanColour_as_written(line) == strip(RemoveDigitsDotsParens(line))

\* re.sub(r'[\d\.\)\(]+', '', colour).strip().upper()
CleanColour(line) == upper(strip(RemoveDigitsDotsParens(line)))

\* manual_colour.upper() if manual_colour else "UNKNOWN"
ManualColour(manual_colour) ==
    IF manual_colour # "" THEN upper(manual_colour) ELSE "UNKNOWN"

\* extract_colour_from_page2 with page_number = 1, the page text falling back
\* on the page's own text when no colour was typed: the value returned and the
\* key of the text input drawn ("" when none is)
extract_colour_from_page2_page_text(text, values) ==
    LET lines == filtered_lines(text) IN
    IF lines # <<>>
    THEN LET cleaned == CleanColour(lines[1]) IN
         IF Contains(cleaned, "MANUAL")
         THEN [ colour |-> IF values["colour_manual_1"] # ""
                           THEN upper(values["colour_manual_1"]) ELSE cleaned,
                widget |-> "colour_manual_1" ]
         ELSE [ colour |-> IF cleaned # "" THEN cleaned ELSE "UNKNOWN", widget |-> "" ]
    ELSE [ colour |-> ManualColour(values["colour_missing_1"]),
           widget |-> "colour_missing_1" ]

\* extract_colour_from_page2 with page_number = 1: the value returned and the
\* key of the text input drawn ("" when none is)
extract_colour_from_page2(text, values) ==
    LET lines == filtered_lines(text) IN
    IF lines # <<>>
    THEN LET cleaned == CleanColour(lines[1]) IN
         IF Contains(cleaned, "MANUAL")
         THEN [ colour |-> ManualColour(values["colour_manual_1"]),
                widget |-> "colour_manual_1" ]
         ELSE [ colour |-> IF cleaned # "" THEN cleaned ELSE "UNKNOWN", widget |-> "" ]
    ELSE [ colour |-> ManualColour(values["colour_missing_1"]),
           widget |-> "colour_missing_1" ]

-----------------------------------------------------------------------------
(* Dates: datetime.strptime, timedelta and strftime *)

IsLeap(y) == (y % 4 = 0 /\ y % 100 # 0) \/ y % 400 = 0

DaysInMonth(y, m) ==
    IF m = 2 THEN (IF IsLeap(y) THEN 29 ELSE 28)
    ELSE IF m \in {4, 6, 9, 11} THEN 30 ELSE 31

\* datetime.strptime(text, "%d/%m/%Y") for a text of the shape DD/MM/YYYY
strptime(text) ==
    LET d == DigitsToNat(SubSeq(text, 1, 2))
        m == DigitsToNat(SubSeq(text, 4, 5))
        y == DigitsToNat(SubSeq(text, 7, 10))
    IN IF y >= 1 /\ m \in 1..12 /\ d >= 1 /\ d <= DaysInMonth(y, m)
       THEN Return([year |-> y, month |-> m, day |-> d])
       ELSE Raise("ValueError")

\* the days before 1 January of year y
DaysBeforeYear(y) ==
    365 * (y - 1) + ((y - 1) \div 4) - ((y - 1) \div 100) + ((y - 1) \div 400)

\* the days of year y before the first of month m
RECURSIVE DaysBeforeMonth(_, _)
DaysBeforeMonth(y, m) ==
    IF m = 1 THEN 0 ELSE DaysBeforeMonth(y, m - 1) + DaysInMonth(y, m - 1)

\* date.toordinal: 1 January of year 1 is day 1
toordinal(date) == DaysBeforeYear(date.year) + DaysBeforeMonth(date.year, date.month) + date.day

\* date.fromordinal for n >= 1
fromordinal(n) ==
    LET y == CHOOSE c \in ((n \div 366) + 1)..((n \div 365) + 1) :
                 DaysBeforeYear(c) < n /\ n <= DaysBeforeYear(c + 1)
        rest == n - DaysBeforeYear(y)
        m == CHOOSE c \in 1..12 :
                 DaysBeforeMonth(y, c) < rest
                 /\ rest <= DaysBeforeMonth(y, c) + DaysInMonth(y, c)
    IN [year |-> y, month |-> m, day |-> rest - DaysBeforeMonth(y, m)]

\* date - timedelta(days=n)
MinusDays(date, n) ==
    IF toordinal(date) - n < 1 THEN Raise("OverflowError")
    ELSE Return(fromordinal(toordinal(date) - n))

\* date.strftime('%d-%m-%Y') for a year of four digits
strftime_dmY(date) ==
    TwoDigits(date.day) \o "-" \o TwoDigits(date.month) \o "-" \o NatToStr(date.year)

\* the day after
NextDay(date) == fromordinal(toordinal(date) + 1)

\* datetime.today() as the i-th record is built: the next day from the record
\* on that is the first after midnight
TodayAt(date, midnight, i) ==
    IF midnight # 0 /\ i >= midnight THEN NextDay(date) ELSE date

\* date.strftime("%m%Y") for a year of four digits
strftime_mY(date) == TwoDigits(date.month) \o NatToStr(date.year)

\* batch, with the handover month itself
BatchOf_handover_month(date_match) ==
    IF date_match = None THEN "UNKNOWN"
    ELSE LET parsed == strptime(date_match) IN
         IF parsed.exc # "" THEN "UNKNOWN" ELSE strftime_mY(parsed.ret)

\* batch: the handover date less 20 days as MMYYYY; any exception leaves UNKNOWN
BatchOf(date_match) ==
    IF date_match = None THEN "UNKNOWN"
    ELSE LET parsed == strptime(date_match) IN
         IF parsed.exc # "" THEN "UNKNOWN"
         ELSE LET earlier == MinusDays(parsed.ret, 20) IN
              IF earlier.exc # "" THEN "UNKNOWN" ELSE strftime_mY(earlier.ret)

-----------------------------------------------------------------------------
(* The patterns of page 1 *)

\* word stands in text at position i
StartsAt(text, i, word) ==
    i + Len(word) - 1 <= Len(text) /\ SubSeq(text, i, i + Len(word) - 1) = word

\* the words from the k-th on, \s* between them, match at i: the position
\* after them, 0 when they do not
RECURSIVE MatchWords(_, _, _, _)
MatchWords(text, i, words, k) ==
    IF ~StartsAt(text, i, words[k]) THEN 0
    ELSE IF k = Len(words) THEN i + Len(words[k])
    ELSE MatchWords(text, SkipSpaces(text, i + Len(words[k])), words, k + 1)

\* position of the first character at or after i that is no '.'
RECURSIVE SkipDots(_, _)
SkipDots(text, i) ==
    IF i <= Len(text) /\ CharAt(text, i) = "." THEN SkipDots(text, i + 1) ELSE i

\* \s*\.{2,} after a label that ends before position e (0: no label): the
\* position after the last dot, 0 when there is no match
TheLabelEnd(text, e) ==
    IF e = 0 THEN 0
    ELSE IF SkipDots(text, SkipSpaces(text, e)) - SkipSpaces(text, e) >= 2
         THEN SkipDots(text, SkipSpaces(text, e))
         ELSE 0

\* label\s*\.{2,} matches at i: the position after the last dot, 0 when it
\* does not
LabelAt(text, i, words) ==
    IF ~StartsAt(text, i, words[1]) THEN 0
    ELSE TheLabelEnd(text, MatchWords(text, i, words, 1))

\* position after the line that position q is in
LineEnd(text, q) ==
    Least({ j \in q..(Len(text) + 1) : j = Len(text) + 1 \/ CharAt(text, j) = "\n" })

RestOfLine(text, q) == SubSeq(text, q, LineEnd(text, q) - 1)

\* \s*(.+) after dots that end before position a: \s* runs over line ends,
\* and gives back white space, and \.{2,} a dot, when nothing else is left
\* for the group
CaptureLine(text, a) ==
    LET q == SkipSpaces(text, a)
        back == { j \in a..(q - 1) : CharAt(text, j) # "\n" }
    IN IF q <= Len(text) THEN RestOfLine(text, q)
       ELSE IF back # {} THEN RestOfLine(text, CHOOSE j \in back : \A k \in back : k <= j)
       ELSE IF a > 3 /\ CharAt(text, a - 3) = "." THEN RestOfLine(text, a - 1)
       ELSE None

\* position of the first character at or after i that [\w/] does not take
RECURSIVE SkipWord(_, _, _)
SkipWord(text, i, extra) ==
    IF i <= Len(text) /\ (IsWordChar(CharAt(text, i)) \/ CharAt(text, i) \in extra)
    THEN SkipWord(text, i + 1, extra) ELSE i

\* \s*([\w/]+) after the dots
CaptureWord(text, a) ==
    LET q == SkipSpaces(text, a) IN
    IF SkipWord(text, q, {"/"}) > q THEN SubSeq(text, q, SkipWord(text, q, {"/"}) - 1)
    ELSE None

\* \s*(\d{2}/\d{2}/\d{4}) after the dots
CaptureDate(text, a) ==
    LET q == SkipSpaces(text, a) IN
    IF /\ q + 9 <= Len(text)
       /\ \A k \in 0..9 : IF k \in {2, 5} THEN CharAt(text, q + k) = "/"
                          ELSE IsDigit(CharAt(text, q + k))
    THEN SubSeq(text, q, q + 9)
    ELSE None

\* \d{2} stands at position r
TwoDigitsAt(text, r) ==
    r + 1 <= Len(text) /\ IsDigit(CharAt(text, r)) /\ IsDigit(CharAt(text, r + 1))

\* \s*(\w+)?\s*(\d{2}) after the dots: group 2, with group 1 as long as it
\* can be
CaptureSeason(text, a) ==
    LET q == SkipSpaces(text, a)
        lengths == { g \in 0..(SkipWord(text, q, {}) - q) :
                       TwoDigitsAt(text, SkipSpaces(text, q + g)) }
    IN IF lengths = {} THEN None
       ELSE LET g == CHOOSE x \in lengths : \A y \in lengths : y <= x
                r == SkipSpaces(text, q + g)
            IN SubSeq(text, r, r + 1)

\* the group that follows the dots: (.+), ([\w/]+), (\d{2}/\d{2}/\d{4}) or
\* the second of (\w+)?\s*(\d{2})
Capture(group, text, a) ==
    CASE group = "line" -> CaptureLine(text, a)
      [] group = "word" -> CaptureWord(text, a)
      [] group = "date" -> CaptureDate(text, a)
      [] group = "season" -> CaptureSeason(text, a)

\* re.search of label\s*\.{2,}\s* and a group: the group of the first match
SearchField(text, words, group) ==
    LET hits == { i \in 1..Len(text) :
                    /\ LabelAt(text, i, words) # 0
                    /\ Capture(group, text, LabelAt(text, i, words)) # None }
    IN IF hits = {} THEN None
       ELSE Capture(group, text, LabelAt(text, Least(hits), words))

\* re.search(r"\b\d{6}\b", page1)
SearchStyleCode(text) ==
    LET hits == { i \in 1..Len(text) : DigitTokenAt(text, 6, i) } IN
    IF hits = {} THEN None ELSE SubSeq(text, Least(hits), Least(hits) + 5)

\* the searches of extract_data_from_pdf on the text of page 1
SearchPage1(text) ==
    [ order_id |-> SearchField(text, <<"Order", "-", "ID">>, "line"),
      merch_code |-> SearchField(text, <<"Merch", "code">>, "word"),
      season |-> SearchField(text, <<"Season">>, "season"),
      style_code |-> SearchStyleCode(text),
      collection |-> SearchField(text, <<"Collection">>, "line"),
      handover |-> SearchField(text, <<"Handover", "date">>, "date"),
      item_class |-> SearchField(text, <<"Item classification">>, "line"),
      supplier_code |-> SearchField(text, <<"Supplier product code">>, "line"),
      supplier_name |-> SearchField(text, <<"Supplier name">>, "line") ]

-----------------------------------------------------------------------------
(* The order id of a file that is not parsed in full *)

\* the position of a file object after read(): its end
FileSize == 2

\* [A-Z0-9_+-] under re.IGNORECASE
IsIdChar(c) == IsDigit(c) \/ LowerChar(c) # UpperChar(c) \/ c \in {"_", "+", "-"}

\* position of the first character at or after i that [A-Z0-9_+-] does not take
RECURSIVE SkipId(_, _)
SkipId(text, i) ==
    IF i <= Len(text) /\ IsIdChar(CharAt(text, i)) THEN SkipId(text, i + 1) ELSE i

\* \s*([A-Z0-9_+-]+) after the dots
CaptureId(text, a) ==
    IF SkipId(text, SkipSpaces(text, a)) > SkipSpaces(text, a)
    THEN SubSeq(text, SkipSpaces(text, a), SkipId(text, SkipSpaces(text, a)) - 1)
    ELSE None

\* re.search(r"Order\s*-\s*ID\s*\.{2,}\s*([A-Z0-9_+-]+)", page1_text,
\* re.IGNORECASE): the label is looked for in the lower-cased text, the group
\* is taken from the text as it is
SearchOrderIdOnly(text) ==
    LET hits == { i \in 1..Len(text) :
                    /\ LabelAt(lower(text), i, <<"order", "-", "id">>) # 0
                    /\ CaptureId(text, LabelAt(lower(text), i, <<"order", "-", "id">>)) # None }
    IN IF hits = {} THEN None
       ELSE strip(CaptureId(text, LabelAt(lower(text), Least(hits), <<"order", "-", "id">>)))

\* extract_order_id_only without the restored read position: the value
\* returned and the position the file is left at
extract_order_id_only_left_at_end(f) ==
    [ ret |-> IF ~f.readable \/ f.pages < 1 THEN None ELSE SearchOrderIdOnly(f.page1),
      pos |-> FileSize ]

\* extract_order_id_only: pos = file.tell(), file.seek(0), file.read(), and
\* file.seek(pos) on each of the three ways out
extract_order_id_only(f) ==
    [ ret |-> IF ~f.readable \/ f.pages < 1 THEN None ELSE SearchOrderIdOnly(f.page1),
      pos |-> f.pos ]

\* pepco_section with every file kept: a file without order id gives an empty part
CollectOtherIds_keep_all(files) ==
    [ k \in DOMAIN files |->
        IF extract_order_id_only([files[k] EXCEPT !.pos = 0]).ret = None THEN ""
        ELSE extract_order_id_only([files[k] EXCEPT !.pos = 0]).ret ]

\* pepco_section: other_ids, each file rewound before the call
CollectOtherIds(files) ==
    LET found == [ k \in DOMAIN files |->
                     extract_order_id_only([files[k] EXCEPT !.pos = 0]).ret ]
    IN SelectSeq(found, LAMBDA oid : oid # None)

-----------------------------------------------------------------------------
(* The page-1 columns of a record *)

\* the groups that the page-1 patterns capture: season is group 2 of its
\* pattern, style_code the whole match
Page1Fields ==
    { "order_id", "merch_code", "season", "style_code", "collection", "handover",
      "item_class", "supplier_code", "supplier_name" }

\* no pattern of page 1 matched
NoPage1 == [ f \in Page1Fields |-> None ]

\* style_suffix
StyleSuffix(merch_code, season) ==
    IF merch_code # None /\ season # None THEN strip(merch_code) \o season
    ELSE IF merch_code # None THEN strip(merch_code)
    ELSE ""

\* group(1).strip() if the pattern matched else "UNKNOWN"
StrippedOrUnknown(group) == IF group = None THEN "UNKNOWN" ELSE strip(group)

\* extract_data_from_pdf: the columns that are built from page 1
PageOneColumns(p1) ==
    LET item_class_value == StrippedOrUnknown(p1.item_class)
        collection_value ==
            IF p1.collection = None THEN "UNKNOWN"
            ELSE strip(SplitFirst(p1.collection, "-"))
    IN [ Order_ID |-> StrippedOrUnknown(p1.order_id),
         Style |-> IF p1.style_code # None THEN p1.style_code ELSE "UNKNOWN",
         Supplier_product_code |-> StrippedOrUnknown(p1.supplier_code),
         Item_classification |-> item_class_value,
         Supplier_name |-> StrippedOrUnknown(p1.supplier_name),
         Collection |-> RecodeCollection(collection_value,
                                         get_classification_type(item_class_value)),
         Style_Merch_Season |->
             IF p1.style_code # None
             THEN "STYLE " \o p1.style_code \o " " \o Bullet \o " "
                  \o StyleSuffix(p1.merch_code, p1.season)
                  \o " " \o Bullet \o " Batch No./"
             ELSE "STYLE UNKNOWN",
         Batch |-> "Data e prodhimit: " \o BatchOf(p1.handover) ]

-----------------------------------------------------------------------------
(* One processing pass: pepco_section and process_pepco_pdf on the primary   *)
(* file, with the product translations table loaded.                         *)

\* expected: the secret is preferred, the environment variable is the fallback
Expected(secret, env) == IF secret # None THEN secret ELSE env

\* st.session_state of a new session
NewSession == [password_correct |-> None, password |-> None]

\* _password_entered with every text accepted
password_entered_any_text(state, expected) ==
    [state EXCEPT !.password_correct = "True", !.password = None]

\* _password_entered, the on_change callback of the password input
password_entered(state, expected) ==
    IF state.password = expected
    THEN [state EXCEPT !.password_correct = "True", !.password = None]
    ELSE [state EXCEPT !.password_correct = "False"]

\* check_password: the value returned
check_password(expected, state) ==
    IF expected = None THEN FALSE
    ELSE state.password_correct = "True"

\* check_password drew the password input before it returned
PasswordInputDrawn(expected, state) ==
    expected # None /\ state.password_correct # "True"

\* 'if result_data:' with every file taken to have records
HasRecords_any_file(result_data) == TRUE

\* if result_data:
HasRecords(result_data) == result_data # <<>>

\* pepco_section up to the return of extract_data_from_pdf: the order ids of
\* the other files are joined; file.read() gives the primary file from its
\* read position on; the result is None for bytes that fitz cannot open (none
\* are left when the position is not 0) or a file of fewer than 3 pages, else
\* one record per (sku, barcode) pair
ExtractData ==
    /\ pc = "start"
    /\ check_password(Expected(app_password, env_password), session_state)
    /\ extra_order_ids' = Join(CollectOtherIds(others), "+")
    /\ file_pos' = FileSize
    /\ IF ~doc.readable \/ file_pos # 0 \/ doc.pages < 3
       THEN /\ no_result' = TRUE
            /\ result' = <<>>
            /\ UNCHANGED <<page1, colour, rendered, skus, valid_barcodes>>
       ELSE LET found == extract_colour_from_page2(page2, widgets)
                found_skus == FindDigitTokens(page3, 8, 1)
                all_barcodes == FindDigitTokens(page3, 13, 1)
                excluded == FindExcluded(page3)
                kept == FilterExcluded(all_barcodes, excluded)
                pairs == zip(found_skus, kept)
                groups == SearchPage1(page1_text)
                columns == PageOneColumns(groups)
            IN /\ page1' = groups
               /\ colour' = found.colour
               /\ rendered' = IF found.widget = "" THEN {} ELSE {found.widget}
               /\ skus' = found_skus
               /\ valid_barcodes' = kept
               /\ no_result' = FALSE
               /\ result' = [ i \in DOMAIN pairs |->
                                columns @@
                                [ today_date |-> strftime_dmY(TodayAt(today, midnight_at, i)),
                                  Colour |-> found.colour,
                                  Colour_SKU |-> found.colour \o " " \o Bullet
                                                 \o " SKU " \o pairs[i][1],
                                  barcode |-> pairs[i][2] ] ]
    /\ pc' = "extracted"
    /\ UNCHANGED <<inputVars, today, midnight_at, widgets, csv_offered, pln_messages, df, classVars,
                   formatVars, priceVars, translateVars, fileVars, authVars>>

\* ValidPln with a negative price let through
ValidPln_negative_allowed(pln_price_raw) ==
    IF strip(pln_price_raw) = "" THEN NoneValue
    ELSE LET parsed == ParseFloat(Replace(pln_price_raw, ",", ".")) IN
         IF parsed.exc # "" THEN NoneValue ELSE parsed.ret

\* pln_price: the validated value of the PLN text input, None when rejected
ValidPln(pln_price_raw) ==
    IF strip(pln_price_raw) = "" THEN NoneValue
    ELSE LET parsed == ParseFloat(Replace(pln_price_raw, ",", ".")) IN
         IF parsed.exc # "" THEN NoneValue
         ELSE IF parsed.ret.kind \in {"float", "inf"} /\ parsed.ret.n < 0 THEN NoneValue
         ELSE parsed.ret

\* the st.error that the validation of the PLN input draws (without its sign)
PlnError(pln_price_raw) ==
    IF strip(pln_price_raw) = "" THEN <<>>
    ELSE LET parsed == ParseFloat(Replace(pln_price_raw, ",", ".")) IN
         IF parsed.exc # "" THEN <<"Please enter a valid number like 12.50 or 12,50">>
         ELSE IF parsed.ret.kind \in {"float", "inf"} /\ parsed.ret.n < 0
         THEN <<"Price can't be negative.">>
         ELSE <<>>

\* the st.warning under 'if currency_values: ... else:'
NotFoundWarning == <<"Processing stopped - valid PLN price not found">>

\* the currency columns of the export
ExportCurrencies == <<"EUR", "BGN", "BAM", "RON", "CZK", "MKD", "RSD", "HUF">>

\* cotton_value
CottonValue(selected) ==
    LET norm_materials ==
            SelectSeq([ i \in DOMAIN selected |-> lower(strip(selected[i])) ],
                      LAMBDA m : m # "")
    IN IF Len(norm_materials) = 1 /\ norm_materials[1] = "cotton" THEN "Y" ELSE ""

\* WASHING_CODES (the values of '1' and '2' are Bengali digits in the source)
WASHING_CODES ==
    [ k \in { NatToStr(n) : n \in 1..15 } |->
        CASE k = "1" -> "12345" [] k = "2" -> "14785" [] k = "3" -> "djnst"
          [] k = "4" -> "djnpt" [] k = "5" -> "djnqt" [] k = "6" -> "djnqt"
          [] k = "7" -> "gjnpt" [] k = "8" -> "gjnpu" [] k = "9" -> "gjnqt"
          [] k = "10" -> "gjnqu" [] k = "11" -> "ijnst" [] k = "12" -> "ijnsu"
          [] k = "13" -> "ijnpu" [] k = "14" -> "ijnsv" [] OTHER -> "djnsw" ]

\* the languages that material texts are made for
MaterialLanguages == <<"AL", "BG", "MK", "RS">>

\* the key of the composition input of the i-th selected material
CompositionKey(i) == "mat_" \o NatToStr(i - 1) \o "_comp"

\* selected_materials: the multiselect is drawn only for a table with rows
SelectedMaterials(table, selected) == IF DOMAIN table = {} THEN <<>> ELSE selected

\* the composition of a material as it goes into the text: '%' is appended
\* when the entry has none
WithPercent(composition) ==
    IF Contains(composition, "%") THEN composition ELSE composition \o "%"

\* comp_texts of a language: '{composition} {material_name}' for each
\* selected material that has an entry and a translation
CompTexts(table, selected, values, lang) ==
    LET with == SelectSeq([ i \in DOMAIN selected |-> i ],
                          LAMBDA i : /\ values[CompositionKey(i)] # ""
                                     /\ lang \in DOMAIN table[selected[i]])
    IN [ k \in DOMAIN with |->
           WithPercent(values[CompositionKey(with[k])]) \o " "
           \o table[selected[with[k]]][lang] ]

\* material_compositions
MaterialCompositions(table, selected, values) ==
    [ lang \in { MaterialLanguages[k] : k \in { j \in DOMAIN MaterialLanguages :
                    CompTexts(table, selected, values, MaterialLanguages[j]) # <<>> } } |->
        Join(CompTexts(table, selected, values, lang), ", ") ]

\* trans_list of a language
TransList(table, selected, lang) ==
    LET with == SelectSeq([ i \in DOMAIN selected |-> i ],
                          LAMBDA i : lang \in DOMAIN table[selected[i]])
    IN [ k \in DOMAIN with |-> table[selected[with[k]]][lang] ]

\* material_trans_dict
MaterialTransDict(table, selected) ==
    [ lang \in { MaterialLanguages[k] : k \in { j \in DOMAIN MaterialLanguages :
                    TransList(table, selected, MaterialLanguages[j]) # <<>> } } |->
        Join(TransList(table, selected, lang), ", ") ]

\* df['product_name']
ProductNameColumn(name, row, selected, translations, compositions) ==
    IF name = "" THEN ""
    ELSE format_product_translations(name, row, selected, translations, compositions)

\* the DataFrame before the price columns
EnrichedRows(rows, extra) ==
    [ i \in DOMAIN rows |->
        [ Order_ID |-> IF extra # "" THEN rows[i].Order_ID \o "+" \o extra
                       ELSE rows[i].Order_ID,
          Dept |-> get_dept_value(rows[i].Item_classification),
          Cotton |-> CottonValue(SelectedMaterials(material_table, selected_materials)),
          Collection |-> modify_collection(rows[i].Collection,
                                           rows[i].Item_classification),
          washing_code |-> WASHING_CODES[washing_code] ]
        @@ rows[i] ]

\* the price columns
PriceColumns(currency_values, pln_text) ==
    [ c \in { ExportCurrencies[k] : k \in DOMAIN ExportCurrencies } |->
        DictGet(currency_values, c, "") ]
    @@ [ PLN |-> pln_text ]

\* process_pepco_pdf: the block under 'if result_data:'
EnrichRecords ==
    /\ pc = "extracted"
    /\ HasRecords(result)
    /\ page1' = page1
    /\ UNCHANGED <<file_pos, today, midnight_at, extra_order_ids>>
    /\ rendered' = rendered \cup {"pepco_pln_price"}
                   \cup { CompositionKey(i) :
                            i \in DOMAIN SelectedMaterials(material_table, selected_materials) }
    /\ \E selected \in {SelectedMaterials(material_table, selected_materials)} :
       \E label \in {ProductNameColumn(product_name, translation_row, selected,
                                       MaterialTransDict(material_table, selected),
                                       MaterialCompositions(material_table, selected,
                                                            widgets))} :
       \E rows \in {[ i \in DOMAIN result |->
                      [product_name |-> label] @@ EnrichedRows(result, extra_order_ids)[i] ]} :
       \E pln_price \in {ValidPln(widgets["pepco_pln_price"])} :
       \E currency_values \in {IF pln_price = NoneValue THEN PriceNone
                               ELSE find_closest_price(price_sheet, pln_price)} :
       \E pln_text \in {format_number(pln_price, "PLN")} :
          /\ pln_messages' = PlnError(widgets["pepco_pln_price"])
                              \o (IF pln_price # NoneValue /\ currency_values.status = "None"
                                  THEN NotFoundWarning ELSE <<>>)
          /\ IF currency_values.status = "dict"
             THEN IF pln_text.exc # ""
                  THEN /\ df' = rows
                       /\ csv_offered' = FALSE
                       /\ pc' = "crashed"
                  ELSE /\ df' = [ i \in DOMAIN rows |->
                                    PriceColumns(currency_values.prices, pln_text.ret)
                                    @@ rows[i] ]
                       /\ csv_offered' = TRUE
                       /\ pc' = "enriched"
             ELSE IF currency_values.status = "None"
             THEN /\ df' = rows
                  /\ csv_offered' = FALSE
                  /\ pc' = "enriched"
             ELSE /\ df' = rows
                  /\ csv_offered' = FALSE
                  /\ pc' = "crashed"
    /\ UNCHANGED <<inputVars, colour, widgets, no_result, skus, valid_barcodes,
                   result, classVars, formatVars, priceVars, translateVars, fileVars, authVars>>

\* the pass is over: nothing more is drawn until the next rerun
PassOver ==
    pc \in {"enriched", "crashed", "stopped"} \/ (pc = "extracted" /\ ~HasRecords(result))

\* the locals of the script at the start of a run
FreshLocals ==
    /\ pc' = "start"
    /\ today' = (IF midnight_at # 0 THEN NextDay(today) ELSE today)
    /\ midnight_at' = 0
    /\ pln_messages' = <<>>
    /\ extra_order_ids' = ""
    /\ page1' = NoPage1
    /\ colour' = "UNKNOWN"
    /\ rendered' = {}
    /\ no_result' = FALSE
    /\ csv_offered' = FALSE
    /\ skus' = <<>>
    /\ valid_barcodes' = <<>>
    /\ result' = <<>>
    /\ df' = <<>>

\* what every rerun of the script starts from: the uploader hands out the
\* primary file at position 0
FreshPass == FreshLocals /\ file_pos' = 0

\* extract_data_from_pdf is called once more on the file object that it has
\* read, with no seek in between
ExtractAgain ==
    /\ PassOver
    /\ FreshLocals
    /\ UNCHANGED <<file_pos, inputVars, widgets, classVars, formatVars, priceVars,
                   translateVars, fileVars, authVars>>

MaxSubmissions == 3

\* main: check_password returned False and st.stop() ends the run
StopAtGate ==
    /\ pc = "start"
    /\ ~check_password(Expected(app_password, env_password), session_state)
    /\ pc' = "stopped"
    /\ UNCHANGED <<passVars, classVars, formatVars, priceVars, translateVars, fileVars,
                   authVars>>

\* the operator submits a text in the password input: the widget value is
\* stored under its key, the callback runs, and Streamlit reruns the script
SubmitPassword(text) ==
    /\ pc = "stopped"
    /\ PasswordInputDrawn(Expected(app_password, env_password), session_state)
    /\ text # (IF session_state.password = None THEN "" ELSE session_state.password)
    /\ Len(submitted) < MaxSubmissions
    /\ session_state' = password_entered([session_state EXCEPT !.password = text],
                                         Expected(app_password, env_password))
    /\ submitted' = Append(submitted, text)
    /\ FreshPass
    /\ UNCHANGED <<app_password, env_password, inputVars, widgets, classVars, formatVars,
                   priceVars, translateVars, fileVars>>

\* the next rerun of the script: every local is rebuilt from the document
Rerun ==
    /\ PassOver
    /\ FreshPass
    /\ UNCHANGED <<inputVars, widgets, classVars, formatVars, priceVars, translateVars, fileVars, authVars>>

NextPass == ExtractData \/ EnrichRecords \/ Rerun

-----------------------------------------------------------------------------
(* Inputs of the classification functions: texts put together from parts *)

MaxClassParts == 2

ClassParts ==
    { "Younger Girls Outerwear", "baby boys outerwear", "BABY GIRLS OUTERWEAR",
      "Baby Boys Essentials", "baby girls essentials", "Younger Boys Outerwear",
      "OLDER GIRLS OUTERWEAR", "older boys outerwear", "Ladies Outerwear",
      "mens outerwear", "wo", " / ", "UNKNOWN", "boys outer wear" }

RECURSIVE Texts(_, _)
\* every concatenation of at most n parts
Texts(parts, n) ==
    IF n = 0 THEN {""}
    ELSE LET shorter == Texts(parts, n - 1) IN
         shorter \cup { t \o p : t \in shorter, p \in parts }

ClassInputs == Texts(ClassParts, MaxClassParts) \cup {None}

IdleClass == item_class = None /\ class_type = None /\ dept = None
IdleFormat == fn_value = NoneValue /\ fn_currency = "" /\ fn_ret = Return("")

IdleFile == file = [readable |-> FALSE, pages |-> 0, page1 |-> "", pos |-> 0] /\ file_ret = None

\* a pass on 30 December 2025, far from midnight, with the first washing code
\* chosen and a material translations table without rows
PlainSession ==
    /\ today = [year |-> 2025, month |-> 12, day |-> 30]
    /\ midnight_at = 0
    /\ washing_code = "1"
    /\ material_table = <<>>

\* a session in which the configured password has been submitted
SignedIn ==
    /\ app_password = "s3cret"
    /\ env_password = None
    /\ session_state = [password_correct |-> "True", password |-> None]
    /\ submitted = <<"s3cret">>

IdlePrice ==
    /\ price_sheet = [c \in {"PLN", "EUR", "CZK"} |-> <<>>]
    /\ pln_value = NoneValue
    /\ price_ret = PriceNone

\* the keys of the text inputs
WidgetKeys ==
    {"colour_manual_1", "colour_missing_1", "pepco_pln_price", "mat_0_comp", "mat_1_comp"}

\* nothing typed yet
NoInput == [ k \in WidgetKeys |-> "" ]

\* the locals of a pass before its first statement
StartOfPass ==
    /\ file_pos = 0
    /\ pln_messages = <<>>
    /\ extra_order_ids = ""
    /\ page1 = NoPage1
    /\ colour = "UNKNOWN"
    /\ rendered = {}
    /\ no_result = FALSE
    /\ csv_offered = FALSE
    /\ skus = <<>>
    /\ valid_barcodes = <<>>
    /\ result = <<>>
    /\ df = <<>>

IdlePass ==
    /\ doc = [readable |-> FALSE, pages |-> 0]
    /\ page1_text = ""
    /\ page2 = ""
    /\ page3 = ""
    /\ widgets = NoInput
    /\ others = <<>>
    /\ StartOfPass
    /\ PlainSession

\* the columns of a row of the product translations table
TranslationColumns == {"EN", "ES_CA"} \cup { language_order[i] : i \in DOMAIN language_order }

IdleTranslate ==
    /\ product_name = ""
    /\ translation_row = [c \in TranslationColumns |-> NaN]
    /\ selected_materials = <<>>
    /\ material_translations = <<>>
    /\ material_compositions = <<>>
    /\ product_text = ""

InitClassify ==
    /\ IdleFile
    /\ SignedIn
    /\ pc = "classify"
    /\ item_class \in ClassInputs
    /\ class_type = None
    /\ dept = None
    /\ IdlePass
    /\ IdleFormat
    /\ IdlePrice
    /\ IdleTranslate

CallGetClassificationType ==
    /\ pc = "classify"
    /\ class_type' = get_classification_type(item_class)
    /\ pc' = "dept"
    /\ UNCHANGED <<item_class, dept, passVars, formatVars, priceVars, translateVars, fileVars, authVars>>

CallGetDeptValue ==
    /\ pc = "dept"
    /\ dept' = get_dept_value(item_class)
    /\ pc' = "classified"
    /\ UNCHANGED <<item_class, class_type, passVars, formatVars, priceVars, translateVars, fileVars, authVars>>

NextClassify == CallGetClassificationType \/ CallGetDeptValue

SpecClassify == InitClassify /\ [][NextClassify]_vars

-----------------------------------------------------------------------------
(* Inputs of a pass *)

MaxPage3Parts == 4

Page3Parts ==
    { "10000001 ", "10000002", "5900000000011 ", "5900000000022 ",
      "barcode: 5900000000011; ", "x" }

\* the label of a field on page 1
LabelOf(f) ==
    CASE f = "order_id" -> "Order - ID"
      [] f = "merch_code" -> "Merch code"
      [] f = "season" -> "Season"
      [] f = "collection" -> "Collection"
      [] f = "handover" -> "Handover date"
      [] f = "item_class" -> "Item classification"
      [] f = "supplier_code" -> "Supplier product code"
      [] f = "supplier_name" -> "Supplier name"
      [] OTHER -> ""

\* the order of the lines of page 1
FieldOrder ==
    << "order_id", "merch_code", "season", "style_code", "collection", "handover",
       "item_class", "supplier_code", "supplier_name" >>

\* the line of field f with value v; no line for None; the style code has no
\* label
FieldLine(f, v) ==
    IF v = None THEN ""
    ELSE IF f = "style_code" THEN v \o "\n"
    ELSE LabelOf(f) \o " ......... " \o v \o "\n"

\* page 1 with a line for every field that has a value
Page1Text(values) ==
    Join([ k \in DOMAIN FieldOrder |-> FieldLine(FieldOrder[k], values[FieldOrder[k]]) ], "")

\* a readable file of three pages
ThreePages == [readable |-> TRUE, pages |-> 3]

InitPage3 ==
    /\ IdleFile
    /\ SignedIn
    /\ pc = "start"
    /\ doc = ThreePages
    /\ page1_text = Page1Text([ NoPage1 EXCEPT !.collection = "CROCO CLUB - extra",
                                               !.item_class = "Baby Boys Outerwear" ])
    /\ page2 = "(12) Navy Blue"
    /\ page3 \in Texts(Page3Parts, MaxPage3Parts)
    /\ widgets = NoInput
    /\ others = <<>>
    /\ StartOfPass
    /\ PlainSession
    /\ IdleClass
    /\ IdleFormat
    /\ IdlePrice
    /\ IdleTranslate

SpecPage3 == InitPage3 /\ [][NextPass]_vars

MaxCollectionParts == 2

CollectionParts ==
    { "CROCO CLUB", "Little Sailor", "rainbow girl", "DINO FRIENDS",
      "Summer Vibe", "Daisy", "COOL GIRL", " - extra", "SUMMER" }

\* a (.+) group after \s*: not empty, no white space in front
Captured(texts) == { t \in texts : t # "" /\ ~IsSpace(CharAt(t, 1)) }

PassClassInputs ==
    { None, "Baby Boys Outerwear", "BABY GIRLS OUTERWEAR", "baby boys essentials ",
      "Baby Girls Essentials", "Younger Girls Outerwear",
      "Older Boys Outerwear", "Accessories",
      "Older Girls Outerwear / Younger Boys Outerwear" }

InitRecode ==
    /\ IdleFile
    /\ SignedIn
    /\ pc = "start"
    /\ doc = ThreePages
    /\ \E c \in Captured(Texts(CollectionParts, MaxCollectionParts)) \cup {None},
          ic \in PassClassInputs :
          page1_text = Page1Text([ NoPage1 EXCEPT !.collection = c, !.item_class = ic ])
    /\ page2 = "(12) Navy Blue"
    /\ page3 = "10000001 10000002 5900000000011 5900000000022"
    /\ widgets = NoInput
    /\ others = <<>>
    /\ StartOfPass
    /\ PlainSession
    /\ IdleClass
    /\ IdleFormat
    /\ IdlePrice
    /\ IdleTranslate

SpecRecode == InitRecode /\ [][NextPass]_vars

\* the values on page 1 of the end-to-end scenario
ScenarioPage1 ==
    [ order_id |-> "AB123", merch_code |-> "XY1", season |-> "SPRING 26",
      style_code |-> "123456", collection |-> "CROCO CLUB - extra",
      handover |-> "12/03/2026", item_class |-> "Baby Boys Outerwear",
      supplier_code |-> "SP-77", supplier_name |-> "Acme Ltd" ]

\* the operator types into a text input that the pass has drawn; Streamlit
\* reruns the script
TypeInto(key, text) ==
    /\ PassOver
    /\ key \in rendered
    /\ widgets' = [widgets EXCEPT ![key] = text]
    /\ FreshPass
    /\ UNCHANGED <<inputVars, classVars, formatVars, priceVars, translateVars, fileVars, authVars>>

(* Inputs of the colour extraction *)

MaxColourLines == 3

ColourLines ==
    { "Purchase order 77\n", "12/03/2026 - 4,5\n", "(12) Navy Blue\n",
      "St. Tropez 2\n", "see Manual 1\n", " (3.) \n", "Poznan, POLAND\n" }

ColourTexts == {"Dark Green"}

InitColour ==
    /\ IdleFile
    /\ SignedIn
    /\ pc = "start"
    /\ doc = ThreePages
    /\ page1_text = Page1Text([NoPage1 EXCEPT !.order_id = ScenarioPage1.order_id])
    /\ page2 \in Texts(ColourLines, MaxColourLines)
    /\ page3 = "10000001 5900000000011"
    /\ widgets = NoInput
    /\ others = <<>>
    /\ StartOfPass
    /\ PlainSession
    /\ IdleClass
    /\ IdleFormat
    /\ IdlePrice
    /\ IdleTranslate

TypeColour ==
    \E key \in {"colour_manual_1", "colour_missing_1"}, text \in ColourTexts :
        TypeInto(key, text)

NextColour == ExtractData \/ EnrichRecords \/ Rerun \/ TypeColour

SpecColour == InitColour /\ [][NextColour]_vars

(* Inputs of a pass over any upload *)

MaxPages == 4

Documents ==
    { [readable |-> FALSE, pages |-> 0] }
    \cup { [readable |-> TRUE, pages |-> n] : n \in 0..MaxPages }

\* a price sheet of two full rows
TwoRowSheet ==
    [ PLN |-> <<Float(999), Float(1499)>>, EUR |-> <<Float(250), Float(350)>>,
      CZK |-> <<Float(6000), Float(8500)>> ]

\* a price sheet with blank PLN and EUR cells above its one full row
BlankAboveSheet ==
    [ PLN |-> <<NaN, Float(1499)>>, EUR |-> <<NaN, Float(350)>>,
      CZK |-> <<Float(6000), Float(8500)>> ]

PlnTexts == {"14,99", "9.99", "24,99", "abc", "-1", "-0,5", " ", "1,2,3"}

InitUpload ==
    /\ IdleFile
    /\ SignedIn
    /\ pc = "start"
    /\ doc \in Documents
    /\ page1_text = Page1Text([NoPage1 EXCEPT !.order_id = ScenarioPage1.order_id])
    /\ page2 = "(12) Navy Blue"
    /\ page3 \in {"", "10000001 5900000000011",
                  "10000001 10000002 5900000000011 5900000000022"}
    /\ widgets = NoInput
    /\ others = <<>>
    /\ StartOfPass
    /\ PlainSession
    /\ price_sheet \in {TwoRowSheet, BlankAboveSheet}
    /\ pln_value = NoneValue
    /\ price_ret = PriceNone
    /\ IdleClass
    /\ IdleFormat
    /\ IdleTranslate

TypePln == \E text \in PlnTexts : TypeInto("pepco_pln_price", text)

\* the operator puts another file into the uploader; Streamlit reruns the script
UploadDocument ==
    /\ PassOver
    /\ \E d \in Documents : doc' = d
    /\ FreshPass
    /\ UNCHANGED <<others, page1_text, page2, page3, washing_code, material_table,
                   widgets, classVars,
                   formatVars, priceVars, translateVars, fileVars, authVars>>

NextUpload == ExtractData \/ EnrichRecords \/ Rerun \/ TypePln \/ UploadDocument

SpecUpload == InitUpload /\ [][NextUpload]_vars

(* Inputs of the page-1 fields *)

\* the fields whose line can come with nothing after the dots
BlankFields == {"order_id", "merch_code", "supplier_name"}
MaxBlankFields == 1

InitFields ==
    /\ IdleFile
    /\ SignedIn
    /\ pc = "start"
    /\ doc = ThreePages
    /\ \E present \in SUBSET Page1Fields :
          \E blank \in SUBSET (present \cap BlankFields) :
             /\ Cardinality(blank) <= MaxBlankFields
             /\ page1_text = Page1Text([ f \in Page1Fields |->
                                           IF f \in blank THEN ""
                                           ELSE IF f \in present THEN ScenarioPage1[f]
                                           ELSE None ])
    /\ page2 = "(12) Navy Blue"
    /\ page3 = "10000001 10000002 5900000000011"
    /\ widgets = NoInput
    /\ others = <<>>
    /\ StartOfPass
    /\ PlainSession
    /\ IdleClass
    /\ IdleFormat
    /\ IdlePrice
    /\ IdleTranslate

SpecFields == InitFields /\ [][NextPass]_vars

(* Inputs of the batch date *)

FirstYear == 2024
MaxYears == 2

DayTexts == {"00", "01", "19", "20", "21", "28", "29", "30", "31", "32"}
MonthTexts == {"00", "01", "02", "03", "04", "12", "13"}

HandoverDates ==
    { d \o "/" \o m \o "/" \o NatToStr(y) :
        d \in DayTexts, m \in MonthTexts, y \in FirstYear..(FirstYear + MaxYears - 1) }

InitBatch ==
    /\ IdleFile
    /\ SignedIn
    /\ pc = "start"
    /\ doc = ThreePages
    /\ \E h \in HandoverDates \cup {None} :
          page1_text = Page1Text([ScenarioPage1 EXCEPT !.handover = h])
    /\ page2 = "(12) Navy Blue"
    /\ page3 = "10000001 5900000000011"
    /\ widgets = NoInput
    /\ others = <<>>
    /\ StartOfPass
    /\ PlainSession
    /\ IdleClass
    /\ IdleFormat
    /\ IdlePrice
    /\ IdleTranslate

SpecBatch == InitBatch /\ [][NextPass]_vars

-----------------------------------------------------------------------------
(* Inputs of extract_order_id_only *)

OrderIdLabels == {"Order - ID", "order - id", "Order-ID"}
OrderIdDots == {" .......... ", ".."}
OrderIdValues == {"CD456", "PO 4711", "ef_1+2-3/x", "", "#77"}
LinesAfter == {"", "Supplier name ......... Acme Ltd\n"}

\* page 1 of a file that is not the primary one
OtherPages ==
    { l \o d \o v \o "\n" \o a :
        l \in OrderIdLabels, d \in OrderIdDots, v \in OrderIdValues, a \in LinesAfter }
    \cup {"", "Merch code ......... XY1\n"}

InitOrderId ==
    /\ pc = "order_id"
    /\ \E r \in BOOLEAN, n \in {0, 1, 3}, text \in OtherPages, pos \in 0..FileSize :
          /\ ~r => n = 0 /\ text = ""
          /\ n = 0 => text = ""
          /\ file = [readable |-> r, pages |-> n, page1 |-> text, pos |-> pos]
    /\ file_ret = None
    /\ SignedIn
    /\ IdleClass
    /\ IdlePass
    /\ IdleFormat
    /\ IdlePrice
    /\ IdleTranslate

CallExtractOrderIdOnly ==
    /\ pc = "order_id"
    /\ file' = [file EXCEPT !.pos = extract_order_id_only(file).pos]
    /\ file_ret' = extract_order_id_only(file).ret
    /\ pc' = "order_id_done"
    /\ UNCHANGED <<passVars, classVars, formatVars, priceVars, translateVars, authVars>>

NextOrderId == CallExtractOrderIdOnly

SpecOrderId == InitOrderId /\ [][NextOrderId]_vars

(* Inputs of a pass over several files *)

MaxOthers == 2

OtherFiles ==
    { [readable |-> FALSE, pages |-> 0, page1 |-> "", pos |-> 0],
      [readable |-> TRUE, pages |-> 0, page1 |-> "", pos |-> 0],
      [readable |-> TRUE, pages |-> 3, page1 |-> "Order - ID .......... CD456\n", pos |-> 0],
      [readable |-> TRUE, pages |-> 1, page1 |-> "order - id .. ef-7\n", pos |-> 0],
      [readable |-> TRUE, pages |-> 3, page1 |-> "Merch code ......... XY1\n", pos |-> 0] }

InitMulti ==
    /\ IdleFile
    /\ SignedIn
    /\ pc = "start"
    /\ doc = ThreePages
    /\ \E n \in 0..MaxOthers : others \in [1..n -> OtherFiles]
    /\ page1_text \in { Page1Text([NoPage1 EXCEPT !.order_id = ScenarioPage1.order_id]),
                        Page1Text([NoPage1 EXCEPT !.style_code = ScenarioPage1.style_code]) }
    /\ page2 = "(12) Navy Blue"
    /\ page3 = "10000001 10000002 5900000000011 5900000000022"
    /\ widgets = [NoInput EXCEPT !["pepco_pln_price"] = "14,99"]
    /\ StartOfPass
    /\ PlainSession
    /\ price_sheet = TwoRowSheet
    /\ pln_value = NoneValue
    /\ price_ret = PriceNone
    /\ IdleClass
    /\ IdleFormat
    /\ IdleTranslate

SpecMulti == InitMulti /\ [][NextPass]_vars

(* Inputs of a pass late in the evening *)

MaxMidnight == 3

Evenings ==
    { [year |-> 2025, month |-> 12, day |-> 30], [year |-> 2025, month |-> 12, day |-> 31],
      [year |-> 2028, month |-> 2, day |-> 28] }

InitClock ==
    /\ IdleFile
    /\ SignedIn
    /\ pc = "start"
    /\ doc = ThreePages
    /\ page1_text = Page1Text(ScenarioPage1)
    /\ page2 = "(12) Navy Blue"
    /\ page3 \in {"10000001 5900000000011",
                  "10000001 10000002 5900000000011 5900000000022",
                  "10000001 10000002 10000003 5900000000011 5900000000022 5900000000033"}
    /\ widgets \in { [NoInput EXCEPT !["pepco_pln_price"] = text] : text \in {"", "14,99"} }
    /\ others = <<>>
    /\ StartOfPass
    /\ today \in Evenings
    /\ midnight_at \in 0..MaxMidnight
    /\ washing_code \in {"1", "15"}
    /\ material_table = <<>>
    /\ price_sheet = TwoRowSheet
    /\ pln_value = NoneValue
    /\ price_ret = PriceNone
    /\ IdleClass
    /\ IdleFormat
    /\ IdleTranslate

SpecClock == InitClock /\ [][NextPass]_vars

(* Inputs of a session that starts at the password gate *)

PasswordTexts == {"", "s3cret", "envpw", "guess"}

InitAuth ==
    /\ pc = "start"
    /\ app_password \in {None, "s3cret"}
    /\ env_password \in {None, "envpw"}
    /\ session_state = NewSession
    /\ submitted = <<>>
    /\ file = [readable |-> FALSE, pages |-> 0, page1 |-> "", pos |-> 0]
    /\ file_ret = None
    /\ doc = ThreePages
    /\ page1_text = Page1Text([NoPage1 EXCEPT !.order_id = ScenarioPage1.order_id])
    /\ page2 = "(12) Navy Blue"
    /\ page3 = "10000001 5900000000011"
    /\ widgets = [NoInput EXCEPT !["pepco_pln_price"] = "14,99"]
    /\ others = <<>>
    /\ StartOfPass
    /\ PlainSession
    /\ price_sheet = TwoRowSheet
    /\ pln_value = NoneValue
    /\ price_ret = PriceNone
    /\ IdleClass
    /\ IdleFormat
    /\ IdleTranslate

NextAuth ==
    \/ StopAtGate
    \/ \E text \in PasswordTexts : SubmitPassword(text)
    \/ ExtractData
    \/ EnrichRecords
    \/ Rerun

SpecAuth == InitAuth /\ [][NextAuth]_vars

(* Inputs of a second extraction from one file object *)

InitReread ==
    /\ IdleFile
    /\ SignedIn
    /\ pc = "start"
    /\ doc \in Documents
    /\ others = <<>>
    /\ page1_text = Page1Text([NoPage1 EXCEPT !.order_id = ScenarioPage1.order_id])
    /\ page2 = "(12) Navy Blue"
    /\ page3 \in {"", "10000001 5900000000011",
                  "10000001 10000002 5900000000011 5900000000022"}
    /\ widgets \in { NoInput, [NoInput EXCEPT !["pepco_pln_price"] = "14,99"] }
    /\ StartOfPass
    /\ PlainSession
    /\ price_sheet = TwoRowSheet
    /\ pln_value = NoneValue
    /\ price_ret = PriceNone
    /\ IdleClass
    /\ IdleFormat
    /\ IdleTranslate

NextReread == ExtractData \/ EnrichRecords \/ Rerun \/ ExtractAgain

SpecReread == InitReread /\ [][NextReread]_vars

-----------------------------------------------------------------------------
(* Inputs of format_number *)

Currencies == {"EUR", "BGN", "BAM", "PLN", "RON", "CZK", "MKD", "RSD", "HUF"}

FormatValues ==
    { Float(c) : c \in {0, 5, 999, 1250, -399, -50, 99999, 100000, 123450, 123456789} }
    \cup { Str(t) : t \in {"12,50", "12.5", "1234,5", " 7 ", "-3,99", "abc", "", "1.234,50", "inf"} }
    \cup { Inf(1), Inf(-1), NaN, NoneValue }

InitFormat ==
    /\ IdleFile
    /\ SignedIn
    /\ pc = "format"
    /\ fn_value \in FormatValues
    /\ fn_currency \in Currencies
    /\ fn_ret = Return("")
    /\ IdleClass
    /\ IdlePass
    /\ IdlePrice
    /\ IdleTranslate

CallFormatNumber ==
    /\ pc = "format"
    /\ fn_ret' = format_number(fn_value, fn_currency)
    /\ pc' = "formatted"
    /\ UNCHANGED <<fn_value, fn_currency, passVars, classVars, priceVars, translateVars, fileVars, authVars>>

NextFormat == CallFormatNumber

SpecFormat == InitFormat /\ [][NextFormat]_vars

-----------------------------------------------------------------------------
(* Inputs of find_closest_price *)

MaxRows == 3

\* the prices of ladder row r in the other currencies
EurAt(r) == 100 * r + 150
CzkAt(r) == 2500 * r + 3500

PlnCells == { NaN, Float(999), Float(1499), Float(2499) }

\* a column of n rows with blank cells in the rows of blanks
Column(n, blanks, at(_)) == [ r \in 1..n |-> IF r \in blanks THEN NaN ELSE Float(at(r)) ]

InitPrice ==
    /\ IdleFile
    /\ SignedIn
    /\ pc = "price"
    /\ \E n \in 0..MaxRows :
         \E pln \in [1..n -> PlnCells], be \in SUBSET (1..n), bc \in SUBSET (1..n) :
            price_sheet = [ PLN |-> pln, EUR |-> Column(n, be, EurAt),
                            CZK |-> Column(n, bc, CzkAt) ]
    /\ pln_value \in { Float(1499), Float(1999) }
    /\ price_ret = PriceNone
    /\ IdleClass
    /\ IdlePass
    /\ IdleFormat
    /\ IdleTranslate

CallFindClosestPrice ==
    /\ pc = "price"
    /\ price_ret' = find_closest_price(price_sheet, pln_value)
    /\ pc' = "priced"
    /\ UNCHANGED <<price_sheet, pln_value, passVars, classVars, formatVars, translateVars, fileVars, authVars>>

NextPrice == CallFindClosestPrice

SpecPrice == InitPrice /\ [][NextPrice]_vars

-----------------------------------------------------------------------------
(* Inputs of format_product_translations *)

MaxMaterials == 1

\* the first n options of the material multiselect
Materials(n) == [ i \in 1..n |-> "material" \o NatToStr(i) ]

ProductNames == {"Jacket", "Cap."}

\* a row of the table: blank cells are NaN
TranslationRow(en, es, ca, bih, rs, rest) ==
    [ c \in TranslationColumns |->
        CASE c = "EN" -> en
          [] c = "ES" -> es
          [] c = "ES_CA" -> ca
          [] c = "BiH" -> bih
          [] c = "RS" -> rs
          [] OTHER -> IF c \in rest THEN Str(lower(c) \o "-tekst") ELSE NaN ]

OtherLanguages == { {}, {"AL", "BG", "CZ", "DE", "MK", "PL", "SK"} }

\* a dict with one text per language of langs
LanguageDict(langs, word) == [ l \in langs |-> word \o " " \o l ]

TranslationLanguages == { {}, {"AL"}, {"BG", "RS"}, {"AL", "BG", "MK", "RS"} }
CompositionLanguages == { {}, {"AL"}, {"RS"}, {"AL", "BG", "MK", "RS"} }

InitTranslate ==
    /\ IdleFile
    /\ SignedIn
    /\ pc = "translate"
    /\ product_name \in ProductNames
    /\ \E en \in {NaN, Str("Jacket EN")}, es \in {NaN, Str("Chaqueta")},
          ca \in {NaN, Str("Jaqueta")}, bih \in {NaN, Str("Jakna")},
          rs \in {NaN, Str("Jakna"), Str("Jakna.")}, rest \in OtherLanguages :
          translation_row = TranslationRow(en, es, ca, bih, rs, rest)
    /\ \E n \in 0..MaxMaterials : selected_materials = Materials(n)
    \* process_pepco_pdf builds a composition text only from a material name
    /\ \E names \in TranslationLanguages :
          /\ material_translations = LanguageDict(names, "pamuk")
          /\ \E langs \in { c \in CompositionLanguages : c \subseteq names } :
                material_compositions = LanguageDict(langs, "100% pamuk")
    /\ product_text = ""
    /\ IdleClass
    /\ IdlePass
    /\ IdleFormat
    /\ IdlePrice

CallFormatProductTranslations ==
    /\ pc = "translate"
    /\ product_text' = format_product_translations(product_name, translation_row,
                            selected_materials, material_translations,
                            material_compositions)
    /\ pc' = "translated"
    /\ UNCHANGED <<fileVars, authVars, product_name, translation_row, selected_materials,
                   material_translations, material_compositions,
                   passVars, classVars, formatVars, priceVars>>

NextTranslate == CallFormatProductTranslations

SpecTranslate == InitTranslate /\ [][NextTranslate]_vars

(* Inputs of a pass with material compositions *)

\* the material translations table: Elastane has no BG and no MK row
MaterialRows ==
    [ Cotton |-> [AL |-> "pambuk", BG |-> "pamuk-bg", MK |-> "pamuk-mk", RS |-> "pamuk"],
      Elastane |-> [AL |-> "elastan", RS |-> "elastin"] ]

CompositionEntries == {"", "40", "60", "70%"}

InitCompose ==
    /\ IdleFile
    /\ SignedIn
    /\ pc = "start"
    /\ doc = ThreePages
    /\ page1_text = Page1Text([NoPage1 EXCEPT !.order_id = ScenarioPage1.order_id])
    /\ page2 = "(12) Navy Blue"
    /\ page3 = "10000001 5900000000011"
    /\ widgets \in { [NoInput EXCEPT !["pepco_pln_price"] = text] : text \in {"", "14,99"} }
    /\ others = <<>>
    /\ StartOfPass
    /\ today = [year |-> 2025, month |-> 12, day |-> 30]
    /\ midnight_at = 0
    /\ washing_code = "3"
    /\ material_table = MaterialRows
    /\ price_sheet = TwoRowSheet
    /\ pln_value = NoneValue
    /\ price_ret = PriceNone
    /\ IdleClass
    /\ IdleFormat
    /\ product_name = "Jacket"
    /\ translation_row = TranslationRow(Str("Jacket EN"), NaN, NaN, NaN, Str("Jakna"),
                                        {"AL", "BG", "CZ", "DE", "MK", "PL", "SK"})
    /\ selected_materials \in {<<>>, <<"Cotton">>, <<"Cotton", "Elastane">>}
    /\ material_translations = <<>>
    /\ material_compositions = <<>>
    /\ product_text = ""

\* the operator fills in the composition of a selected material
TypeComposition ==
    \E i \in 1..2, text \in CompositionEntries : TypeInto(CompositionKey(i), text)

NextCompose == ExtractData \/ EnrichRecords \/ Rerun \/ TypeComposition

SpecCompose == InitCompose /\ [][NextCompose]_vars

-----------------------------------------------------------------------------
(* Claims about the classification functions (SpecClassify) *)

\* The ten rules of the classification table, in the listed order.
ClassificationRules ==
    << <<"younger girls outerwear", "yg">>, <<"baby boys outerwear", "b">>,
       <<"baby girls outerwear", "a">>, <<"baby boys essentials", "d">>,
       <<"baby girls essentials", "d_girls">>, <<"younger boys outerwear", "yg">>,
       <<"older girls outerwear", "yg">>, <<"older boys outerwear", "yg">>,
       <<"ladies outerwear", "a">>, <<"mens outerwear", "b">> >>

MatchingRules(ic) ==
    { k \in DOMAIN ClassificationRules : Contains(lower(ic), ClassificationRules[k][1]) }

\* C3: get_classification_type returns the code of the first rule, in the
\* listed order of the ten phrases, whose phrase is a substring of the
\* lower-cased input, and None for an empty input or one with none of the phrases.
C3_FirstListedRuleWins ==
    pc \in {"dept", "classified"} =>
        class_type = IF item_class \in {None, ""} \/ MatchingRules(item_class) = {}
                     THEN None
                     ELSE ClassificationRules[Least(MatchingRules(item_class))][2]

\* An input with both 'ladies outerwear' and 'mens outerwear' was classified as 'a'.
C3_Witness ==
    /\ pc = "classified"
    /\ item_class # None
    /\ MatchingRules(item_class) = {9, 10}
    /\ class_type = "a"

\* The department groups, in the listed order.
DeptGroups ==
    << <<{"baby boys outerwear", "baby girls outerwear",
          "baby boys essentials", "baby girls essentials"}, "BABY">>,
       <<{"younger boys outerwear", "younger girls outerwear"}, "KIDS">>,
       <<{"older girls outerwear", "older boys outerwear"}, "TEENS">>,
       <<{"ladies outerwear"}, "WOMEN">>,
       <<{"mens outerwear"}, "MEN">> >>

MatchingGroups(ic) ==
    { k \in DOMAIN DeptGroups : \E x \in DeptGroups[k][1] : Contains(lower(ic), x) }

\* C4: get_dept_value maps a classification containing, case-insensitively, a
\* phrase of a group to that group's department (BABY, KIDS, TEENS, WOMEN, MEN;
\* the first listed group decides when phrases of several groups occur) and
\* everything else, the empty input included, to ""; the result is always one
\* of the six values.
C4_DeptOfGroup ==
    pc = "classified" =>
        /\ dept \in {"BABY", "KIDS", "TEENS", "WOMEN", "MEN", ""}
        /\ dept = IF item_class \in {None, ""} \/ MatchingGroups(item_class) = {}
                  THEN ""
                  ELSE DeptGroups[Least(MatchingGroups(item_class))][2]

\* A classification written in capitals got its department.
C4_Witness ==
    /\ pc = "classified"
    /\ item_class = "OLDER GIRLS OUTERWEAR"
    /\ dept = "TEENS"

-----------------------------------------------------------------------------
(* Claims about page 3 and the record builder (SpecPage3) *)

Extracted == pc \in {"extracted", "enriched"}

\* C1: with m SKUs (8-digit tokens) and n valid barcodes on page 3,
\* extract_data_from_pdf produces exactly min(m, n) records, the i-th carrying
\* skus[i] inside Colour_SKU and barcodes[i] as barcode, in encounter order;
\* the surplus of the longer list is in no record.
C1_PositionalPairing ==
    Extracted =>
        /\ skus = FindDigitTokens(page3, 8, 1)
        /\ Len(result) = Min(Len(skus), Len(valid_barcodes))
        /\ \A i \in 1..Len(result) :
              /\ result[i].Colour_SKU = colour \o " " \o Bullet \o " SKU " \o skus[i]
              /\ result[i].barcode = valid_barcodes[i]

\* Two SKUs met one valid barcode: one record, the second SKU dropped.
C1_Witness ==
    /\ pc = "extracted"
    /\ Len(skus) = 2
    /\ Len(valid_barcodes) = 1
    /\ Len(result) = 1

Occurrences(xs, x) == Cardinality({ i \in DOMAIN xs : xs[i] = x })

\* C2: a value captured by a 'barcode: <13 digits>;' annotation is the barcode
\* of no record, also when it occurs as a bare 13-digit token elsewhere; the
\* other 13-digit tokens are kept in encounter order, duplicates included.
C2_AnnotatedBarcodesExcluded ==
    Extracted =>
        LET excluded == FindExcluded(page3)
            all_barcodes == FindDigitTokens(page3, 13, 1)
        IN /\ \A i \in DOMAIN result : result[i].barcode \notin excluded
           /\ \A i \in DOMAIN valid_barcodes : valid_barcodes[i] \notin excluded
           /\ valid_barcodes = SelectSeq(all_barcodes, LAMBDA b : b \notin excluded)

\* An annotated value that is also a bare token was dropped twice, and a record
\* was built from another barcode.
C2_Witness ==
    /\ pc = "extracted"
    /\ \E x \in FindExcluded(page3) : Occurrences(FindDigitTokens(page3, 13, 1), x) >= 2
    /\ Len(result) >= 1

-----------------------------------------------------------------------------
(* Claims about the collection recode and suffix (SpecRecode) *)

\* the raw collection: the part of the match before the first '-', trimmed
RawCollection ==
    IF page1.collection = None THEN "UNKNOWN"
    ELSE strip(SplitFirst(page1.collection, "-"))

RecordCategory(r) == get_classification_type(r.Item_classification)

MatchingPairs(cat) ==
    { k \in DOMAIN COLLECTION_MAPPING[cat] :
        Contains(upper(RawCollection), upper(COLLECTION_MAPPING[cat][k][1])) }

\* the collection as the recode rule gives it for category cat
Recoded(cat) ==
    IF cat \in DOMAIN COLLECTION_MAPPING /\ MatchingPairs(cat) # {}
    THEN COLLECTION_MAPPING[cat][Least(MatchingPairs(cat))][2]
    ELSE RawCollection

\* C5: when the category code of the record's classification is a key of
\* COLLECTION_MAPPING, the collection becomes the new name of the first pair,
\* in table order, whose upper-cased original name is a substring of the
\* upper-cased raw collection; with category None or no matching pair the raw
\* collection is left as it is.
C5_RecodeFirstMatchingPair ==
    Extracted =>
        \A i \in DOMAIN result : result[i].Collection = Recoded(RecordCategory(result[i]))

\* Two pairs of the record's category matched and the first one's name was taken.
C5_Witness ==
    /\ pc = "extracted"
    /\ Len(result) >= 1
    /\ RecordCategory(result[1]) \in DOMAIN COLLECTION_MAPPING
    /\ Cardinality(MatchingPairs(RecordCategory(result[1]))) = 2
    /\ result[1].Collection # RawCollection

\* the suffix of modify_collection for a classification
Suffix(ic) ==
    IF Contains(lower(ic), "younger boys outerwear")
       \/ Contains(lower(ic), "older boys outerwear") THEN " B"
    ELSE IF Contains(lower(ic), "older girls outerwear")
            \/ Contains(lower(ic), "younger girls outerwear") THEN " G"
    ELSE ""

\* C6: modify_collection appends ' B' for a younger/older boys outerwear
\* classification, ' G' for an older/younger girls outerwear one, and nothing
\* otherwise; in a pass it is applied to the recoded collection once per record,
\* so the exported Collection is the recoded name plus at most one suffix.
C6_SuffixOnRecodedCollection ==
    pc = "enriched" =>
        /\ Len(df) = Len(result)
        /\ \A i \in DOMAIN df :
              /\ df[i].Collection
                   = result[i].Collection \o Suffix(df[i].Item_classification)
              /\ df[i].Collection
                   = Recoded(RecordCategory(df[i])) \o Suffix(df[i].Item_classification)

\* An older-boys record's recoded collection got the one suffix ' B'.
C6_Witness ==
    /\ pc = "enriched"
    /\ Len(df) >= 1
    /\ df[1].Item_classification = "Older Boys Outerwear"
    /\ result[1].Collection # RawCollection
    /\ df[1].Collection = result[1].Collection \o " B"

-----------------------------------------------------------------------------
(* Claims about format_number (SpecFormat) *)

\* the float a value is after the ',' -> '.' normalisation of a text
Normalised(v) ==
    IF v.kind = "str" THEN ParseFloat(Replace(v.text, ",", ".")) ELSE PyFloat(v)

IsFiniteNumber(v) == Normalised(v).exc = "" /\ Normalised(v).ret.kind = "float"
IsInfinite(v) == Normalised(v).exc = "" /\ Normalised(v).ret.kind = "inf"
Hundredths(v) == Normalised(v).ret.n

\* two decimals after a comma, no thousands separator
PlainTwoDecimals(c) ==
    (IF c < 0 THEN "-" ELSE "") \o NatToStr(Abs(c) \div 100) \o "," \o TwoDigits(Abs(c) % 100)

IsWholeNumberText(t) ==
    \/ t # "" /\ AllDigits(t)
    \/ Len(t) > 1 /\ CharAt(t, 1) = "-" /\ AllDigits(SubSeq(t, 2, Len(t)))

\* C7: for every numeric value and every currency in {EUR, BGN, BAM, RON, PLN}
\* format_number returns the value with exactly two decimal digits, a comma as
\* decimal separator and no thousands separator, also from 1000 on.
C7_NoThousandsSeparator ==
    (pc = "formatted" /\ fn_currency \in TwoDecimalCurrencies /\ IsFiniteNumber(fn_value)) =>
        fn_ret = Return(PlainTwoDecimals(Hundredths(fn_value)))

\* C8: for every other currency format_number returns the value cut to a whole
\* number as an integer text (a text is first normalised by ',' -> '.'); an
\* input that is no number after that comes back as the original value's text
\* form, and nothing is raised.
C8_WholeNumberOrUnchanged ==
    (pc = "formatted" /\ fn_currency \notin TwoDecimalCurrencies) =>
        /\ fn_ret.exc = ""
        /\ IF IsFiniteNumber(fn_value)
           THEN fn_ret.ret = IntToStr((IF Hundredths(fn_value) < 0 THEN -1 ELSE 1)
                                      * (Abs(Hundredths(fn_value)) \div 100))
           ELSE IF IsInfinite(fn_value) THEN IsWholeNumberText(fn_ret.ret)
           ELSE fn_ret.ret = PyStr(fn_value)

-----------------------------------------------------------------------------
(* Claims about find_closest_price (SpecPrice) *)

SheetRows == DOMAIN price_sheet["PLN"]

\* C9: find_closest_price is exact-match only: with an anchor that is no
\* element of the PLN column it returns no result and never the nearest row.
C9_ExactMatchOnly ==
    (pc = "priced" /\ \A r \in SheetRows : price_sheet["PLN"][r] # pln_value) =>
        price_ret = PriceNone

\* Anchor 19.99 against the PLN column [9.99, 14.99, 24.99] gave no result.
C9_Witness ==
    /\ pc = "priced"
    /\ price_sheet["PLN"] = <<Float(999), Float(1499), Float(2499)>>
    /\ price_sheet["EUR"] = Column(3, {}, EurAt)
    /\ pln_value = Float(1999)
    /\ price_ret = PriceNone

\* C10: with the anchor found at row r of the price sheet, find_closest_price
\* returns for every other currency column the formatted value the sheet holds
\* in that row r, also for sheets with blank cells above row r.  (Stated for
\* the rows r in which the sheet holds a value for every currency.)
C10_SameRowOfSheet ==
    pc = "priced" =>
        \A r \in SheetRows :
            (/\ price_sheet["PLN"][r] = pln_value
             /\ \A q \in 1..(r - 1) : price_sheet["PLN"][q] # pln_value
             /\ \A c \in {"EUR", "CZK"} : price_sheet[c][r].kind = "float")
            => /\ price_ret.status = "dict"
               /\ \A c \in {"EUR", "CZK"} :
                     price_ret.prices[c] = format_number(price_sheet[c][r], c).ret

-----------------------------------------------------------------------------
(* Claims about format_product_translations (SpecTranslate) *)

Translated == pc = "translated"

SegmentLanguages == <<"EN">> \o language_order

\* the language whose marker '|LANG| ' starts at position i of s, "" if none
MarkerAt(s, i) ==
    IF CharAt(s, i) # "|" \/ (i > 1 /\ CharAt(s, i - 1) # " ") THEN ""
    ELSE LET found == { k \in DOMAIN SegmentLanguages :
                          /\ i + Len(SegmentLanguages[k]) + 2 <= Len(s)
                          /\ SubSeq(s, i, i + Len(SegmentLanguages[k]) + 2)
                               = "|" \o SegmentLanguages[k] \o "| " }
         IN IF found = {} THEN "" ELSE SegmentLanguages[Least(found)]

\* the members of a set of numbers in increasing order
SortedSeq(S) ==
    [ k \in 1..Cardinality(S) |->
        CHOOSE i \in S : Cardinality({ j \in S : j < i }) = k - 1 ]

\* the only member of a set of one
TheOne(S) == CHOOSE x \in S : TRUE

\* the positions of s where a marker starts, in increasing order
MarkerPositions(s) ==
    TheOne({ SortedSeq(at) : at \in { { i \in 1..Len(s) : MarkerAt(s, i) # "" } } })

\* the segments between the markers at the positions at: language and text
SegmentsAt(s, at) ==
    [ k \in DOMAIN at |->
        [ lang |-> MarkerAt(s, at[k]),
          text |-> SubSeq(s, at[k] + Len(MarkerAt(s, at[k])) + 3,
                          IF k < Len(at) THEN at[k + 1] - 2 ELSE Len(s)) ] ]

\* the segments parsed back out of s
ParseSegments(s) == TheOne({ SegmentsAt(s, at) : at \in {MarkerPositions(s)} })

\* the text of the first segment of language lang among segs
TextOf(segs, lang) == segs[Least({ k \in DOMAIN segs : segs[k].lang = lang })].text

FallbackLanguages ==
    { l \in TranslationColumns \ {"ES", "ES_CA"} : ~notna(translation_row[l]) }

\* C11: the value returned parses back into exactly 21 segments '|LANG| text'
\* joined by single spaces, in the order EN, AL, BG, BiH, ..., SK, however
\* many languages fall back to the product name
C11_TwentyOneSegmentsInOrder ==
    Translated =>
        \A segs \in {ParseSegments(product_text)} :
        /\ Len(segs) = 21
        /\ \A k \in DOMAIN segs : segs[k].lang = SegmentLanguages[k]
        /\ product_text = Join([ k \in DOMAIN segs |->
                                   "|" \o segs[k].lang \o "| " \o segs[k].text ], " ")

C11_Witness ==
    /\ Translated
    /\ Cardinality(FallbackLanguages) >= 5
    /\ Len(ParseSegments(product_text)) = 21

\* the text the claims expect before any material text or suffix
ExpectedBase(lang) ==
    IF lang = "ES"
    THEN IF notna(translation_row["ES_CA"])
         THEN PyStr(translation_row["ES"]) \o " / " \o PyStr(translation_row["ES_CA"])
         ELSE PyStr(translation_row["ES"])
    ELSE IF notna(translation_row[lang]) THEN translation_row[lang].text
    ELSE product_name

MaterialsSupplied == selected_materials # <<>> /\ DOMAIN material_translations # {}

\* the text C12 expects after the material block
ExpectedWithMaterial(lang) ==
    LET composition == DictGet(material_compositions, lang, "")
        names == DictGet(material_translations, lang, "")
    IN IF composition # "" THEN ExpectedBase(lang) \o ": " \o composition
       ELSE IF names # "" THEN ExpectedBase(lang) \o ": " \o names
       ELSE ExpectedBase(lang)

StartsWith(s, p) == Len(s) >= Len(p) /\ SubSeq(s, 1, Len(p)) = p

\* C12: with material translations supplied, the text of AL, BG, MK and RS
\* gets ': {composition text}' when composition text exists for the language,
\* else ': {material names}' when names exist for it, else nothing (RS then
\* goes on with its suffix)
C12_MaterialTextAppended ==
    (Translated /\ MaterialsSupplied) =>
        \A segs \in {ParseSegments(product_text)} :
        /\ \A lang \in {"AL", "BG", "MK"} : TextOf(segs, lang) = ExpectedWithMaterial(lang)
        /\ StartsWith(TextOf(segs, "RS"), ExpectedWithMaterial("RS"))
           /\ Len(TextOf(segs, "RS")) <= Len(ExpectedWithMaterial("RS")) + 1
                                     + Len(country_suffixes["RS"])

\* the text of lang when the suffix block is reached
BeforeSuffix(lang) ==
    MaterialText(ExpectedBase(lang), lang, selected_materials,
                 material_translations, material_compositions)

\* C13: the BiH and the RS segment end with their suffix sentence, after one
\* period that is added only when the text (for RS after the material text)
\* does not already end with one; no other language gets a suffix
C13_SuffixAfterOnePeriod ==
    Translated =>
        \A segs \in {ParseSegments(product_text)} :
        \A lang \in TranslationColumns \ {"EN", "ES_CA"} :
            TextOf(segs, lang) =
                IF lang \in {"BiH", "RS"}
                THEN BeforeSuffix(lang)
                     \o (IF endswith(BeforeSuffix(lang), ".") THEN "" ELSE ".")
                     \o country_suffixes[lang]
                ELSE BeforeSuffix(lang)

C13_Witness ==
    /\ Translated
    /\ endswith(BeforeSuffix("BiH"), ".")
    /\ ~endswith(BeforeSuffix("RS"), ".")
    /\ BeforeSuffix("RS") # ExpectedBase("RS")
    /\ \E segs \in {ParseSegments(product_text)} :
          /\ endswith(TextOf(segs, "RS"), "pamuk RS." \o country_suffixes["RS"])
          /\ endswith(TextOf(segs, "BiH"), "Cap." \o country_suffixes["BiH"])

\* C14: the ES text is '{ES} / {ES_CA}' when ES_CA is present and plain ES
\* otherwise; the text of EN and of every other language is the row's value
\* when present and the product name otherwise (the material text and the
\* suffix of AL, BG, MK, RS and BiH come after it)
C14_RowValueOrProductName ==
    Translated =>
        \A segs \in {ParseSegments(product_text)} :
        /\ TextOf(segs, "ES") = ExpectedBase("ES")
        /\ TextOf(segs, "EN") = ExpectedBase("EN")
        /\ \A lang \in TranslationColumns \ {"EN", "ES", "ES_CA"} :
              IF lang \in {"AL", "BG", "MK", "RS", "BiH"}
              THEN StartsWith(TextOf(segs, lang), ExpectedBase(lang))
              ELSE TextOf(segs, lang) = ExpectedBase(lang)

C14_Witness ==
    /\ Translated
    /\ notna(translation_row["ES_CA"]) /\ notna(translation_row["ES"])
    /\ ~notna(translation_row["EN"]) /\ ~notna(translation_row["HU"])
    /\ notna(translation_row["DE"])
    /\ \E segs \in {ParseSegments(product_text)} :
          /\ TextOf(segs, "ES") = "Chaqueta / Jaqueta"
          /\ TextOf(segs, "EN") = product_name
          /\ TextOf(segs, "HU") = product_name
          /\ TextOf(segs, "DE") = "de-tekst"

-----------------------------------------------------------------------------
(* Claims about the colour of page 2 (SpecColour) *)

Readable == doc.readable /\ doc.pages >= 3

\* the boilerplate keywords as the specification lists them
BoilerplateKeywords ==
    { "purchase", "colour", "total", "pantone", "supplier", "price", "ordered",
      "sizes", "tpg", "tpx", "usd", "nip", "pepco", "poland",
      "ul. strzeszynska 73a, 60-479 poznan" }

\* the trimmed non-empty lines of page 2 that have no keyword in them and are
\* not all digits, white space, commas, periods, slashes and hyphens
SurvivingLines ==
    SelectSeq(StrippedLines(page2),
              LAMBDA line :
                  /\ \A k \in BoilerplateKeywords : ~Contains(lower(line), k)
                  /\ \E i \in 1..Len(line) :
                        /\ ~IsDigit(CharAt(line, i))
                        /\ ~IsSpace(CharAt(line, i))
                        /\ CharAt(line, i) \notin {",", ".", "/", "-"})

RECURSIVE Without(_, _)
\* s without the characters of the set chars
Without(s, chars) ==
    IF s = "" THEN ""
    ELSE (IF CharAt(s, 1) \in chars THEN "" ELSE CharAt(s, 1))
         \o Without(SubSeq(s, 2, Len(s)), chars)

DigitChars == {"0", "1", "2", "3", "4", "5", "6", "7", "8", "9"}

\* a line with digits and parentheses removed, trimmed and upper-cased
WithoutDigitsAndParentheses(line) == upper(strip(Without(line, DigitChars \cup {"(", ")"})))

\* a line with digits, periods and parentheses removed, trimmed and upper-cased
WithoutDigitsPeriodsAndParentheses(line) ==
    upper(strip(Without(line, DigitChars \cup {"(", ")", "."})))

OrUnknown(text) == IF text = "" THEN "UNKNOWN" ELSE text

\* C15 as stated: the colour is the first surviving line of page 2 with digits
\* and parentheses removed, trimmed and upper-cased, or UNKNOWN when nothing
\* is left of it (a text with MANUAL in it is the matter of C16)
C15_DigitsAndParenthesesRemoved ==
    (Extracted /\ Readable /\ SurvivingLines # <<>>
       /\ ~Contains(WithoutDigitsAndParentheses(SurvivingLines[1]), "MANUAL")
       /\ ~Contains(WithoutDigitsPeriodsAndParentheses(SurvivingLines[1]), "MANUAL")) =>
        colour = OrUnknown(WithoutDigitsAndParentheses(SurvivingLines[1]))

\* C15 amended: periods are removed as well
C15_DigitsPeriodsAndParenthesesRemoved ==
    (Extracted /\ Readable /\ SurvivingLines # <<>>
       /\ ~Contains(WithoutDigitsPeriodsAndParentheses(SurvivingLines[1]), "MANUAL")) =>
        /\ colour = OrUnknown(WithoutDigitsPeriodsAndParentheses(SurvivingLines[1]))
        /\ \A i \in DOMAIN result : result[i].Colour = colour

\* boilerplate and a numeric line came first, and '(12) Navy Blue' gave NAVY BLUE
C15_Witness ==
    /\ pc = "extracted"
    /\ Len(StrippedLines(page2)) = 3
    /\ Len(SurvivingLines) = 1
    /\ SurvivingLines[1] = "(12) Navy Blue"
    /\ colour = "NAVY BLUE"
    /\ Len(result) = 1 /\ result[1].Colour = "NAVY BLUE"

\* the override typed by the operator for the case at hand
TypedColour ==
    IF SurvivingLines = <<>> THEN widgets["colour_missing_1"]
    ELSE widgets["colour_manual_1"]

NeedsManualColour ==
    \/ SurvivingLines = <<>>
    \/ Contains(WithoutDigitsPeriodsAndParentheses(SurvivingLines[1]), "MANUAL")

\* C16: when the cleaned first surviving line has MANUAL in it, or no line
\* survives, the Colour of every record is the typed override upper-cased, or
\* UNKNOWN when none was typed; never a text of the page
C16_ManualColourOrUnknown ==
    (Extracted /\ Readable /\ NeedsManualColour) =>
        /\ colour = (IF TypedColour # "" THEN upper(TypedColour) ELSE "UNKNOWN")
        /\ \A i \in DOMAIN result :
              result[i].Colour = (IF TypedColour # "" THEN upper(TypedColour)
                                  ELSE "UNKNOWN")

\* MANUAL was on the page, the operator typed a colour, the record carries it
C16_Witness ==
    /\ pc = "extracted"
    /\ SurvivingLines # <<>>
    /\ Contains(upper(SurvivingLines[1]), "MANUAL")
    /\ widgets["colour_manual_1"] = "Dark Green"
    /\ Len(result) = 1
    /\ result[1].Colour = "DARK GREEN"

-----------------------------------------------------------------------------
(* Claims about unusable uploads (SpecUpload) *)

\* C17: for a file that cannot be opened or has fewer than 3 pages,
\* extract_data_from_pdf gives no record, and the pass neither enriches
\* anything nor offers the CSV
C17_NoRecordsNoExport ==
    (pc # "start" /\ ~Readable) =>
        /\ no_result
        /\ result = <<>>
        /\ pc = "extracted"
        /\ df = <<>>
        /\ "pepco_pln_price" \notin rendered
        /\ ~csv_offered

\* after a pass that offered the CSV for a price of the sheet, a file of two
\* pages came and nothing was offered
C17_Witness ==
    /\ pc = "extracted"
    /\ doc = [readable |-> TRUE, pages |-> 2]
    /\ page3 # ""
    /\ widgets["pepco_pln_price"] = "14,99"
    /\ no_result
    /\ ~csv_offered

-----------------------------------------------------------------------------
(* Claims about the page-1 fields (SpecFields) *)

\* the columns that a field of page 1 goes into
OwnColumns(f) ==
    CASE f = "order_id" -> {"Order_ID"}
      [] f = "merch_code" -> {"Style_Merch_Season"}
      [] f = "season" -> {"Style_Merch_Season"}
      [] f = "style_code" -> {"Style", "Style_Merch_Season"}
      [] f = "collection" -> {"Collection"}
      [] f = "handover" -> {"Batch"}
      [] f = "item_class" -> {"Item_classification", "Collection"}
      [] f = "supplier_code" -> {"Supplier_product_code"}
      [] f = "supplier_name" -> {"Supplier_name"}

PageOneColumnNames ==
    { "Order_ID", "Style", "Supplier_product_code", "Item_classification",
      "Supplier_name", "Collection", "Style_Merch_Season", "Batch" }

\* line is the line of field f: it starts with the label, the style code
\* stands alone
IsLineOf(line, f) ==
    IF f = "style_code" THEN Len(line) = 6 /\ AllDigits(line)
    ELSE StartsAt(line, 1, LabelOf(f))

\* what the line of field f says after the label and the dots
WrittenOn(line, f) ==
    IF f = "style_code" THEN line
    ELSE strip(SubSeq(line, SkipDots(line, SkipSpaces(line, Len(LabelOf(f)) + 1)),
                      Len(line)))

\* field f is missing from the page: no line of f says anything
FieldMissing(text, f) ==
    \A k \in DOMAIN Split(text, "\n") :
        IsLineOf(Split(text, "\n")[k], f) => WrittenOn(Split(text, "\n")[k], f) = ""

\* the page without the lines of field f
WithoutField(text, f) ==
    LET NotOf(line) == ~IsLineOf(line, f) IN
    Join(SelectSeq(Split(text, "\n"), NotOf), "\n")

\* record r shows field f as missing: UNKNOWN, or nothing, where it would stand
ShowsMissing(f, r) ==
    CASE f = "order_id" -> r.Order_ID \in {"UNKNOWN", ""}
      [] f = "style_code" -> r.Style = "UNKNOWN" /\ r.Style_Merch_Season = "STYLE UNKNOWN"
      [] f = "collection" -> r.Collection \in {"UNKNOWN", ""}
      [] f = "handover" -> r.Batch \in {"Data e prodhimit: UNKNOWN", "Data e prodhimit: "}
      [] f = "item_class" -> r.Item_classification \in {"UNKNOWN", ""}
      [] f = "supplier_code" -> r.Supplier_product_code \in {"UNKNOWN", ""}
      [] f = "supplier_name" -> r.Supplier_name \in {"UNKNOWN", ""}
      [] f = "merch_code" ->
            \/ r.Style_Merch_Season = "STYLE UNKNOWN"
            \/ \E digits \in {"", "26"} :
                  r.Style_Merch_Season = "STYLE " \o r.Style \o " " \o Bullet \o " "
                                         \o digits \o " " \o Bullet \o " Batch No./"
      [] f = "season" ->
            \/ r.Style_Merch_Season = "STYLE UNKNOWN"
            \/ \E merch \in {"", ScenarioPage1.merch_code} :
                  r.Style_Merch_Season = "STYLE " \o r.Style \o " " \o Bullet \o " "
                                         \o merch \o " " \o Bullet \o " Batch No./"

\* C18: whatever page-1 fields are missing, there are min(#skus, #barcodes)
\* records; a field that page 1 says nothing for shows as UNKNOWN or as
\* nothing in its own column; and a page without the lines of one field gives
\* the same values in every column but that field's own
C18_FieldsIndependentlyOptional ==
    (Extracted /\ Readable) =>
        /\ ~no_result
        /\ Len(result) = Min(Len(FindDigitTokens(page3, 8, 1)),
                             Len(FindDigitTokens(page3, 13, 1)))
        /\ \A i \in DOMAIN result :
              /\ \A f \in Page1Fields :
                    FieldMissing(page1_text, f) => ShowsMissing(f, result[i])
              /\ \A f \in Page1Fields :
                    \A without \in { PageOneColumns(SearchPage1(WithoutField(page1_text, f))) } :
                        \A c \in PageOneColumnNames \ OwnColumns(f) :
                            without[c] = result[i][c]

\* the same with no line of page 1 left without a value: a field is missing
\* when it has no line
C18_AbsentLinesOnly ==
    (\A f \in Page1Fields :
        \A k \in DOMAIN Split(page1_text, "\n") :
            IsLineOf(Split(page1_text, "\n")[k], f)
                => WrittenOn(Split(page1_text, "\n")[k], f) # "")
    => C18_FieldsIndependentlyOptional

OrEmpty(group) == IF group = None THEN "" ELSE group

\* C19: Style_Merch_Season is 'STYLE {style_code} * {merch_code}{season_digits}
\* * Batch No./' (* for the bullet) when a style code is on page 1, whichever
\* of merch code and season are there, and 'STYLE UNKNOWN' when none is
C19_StyleMerchSeason ==
    (Extracted /\ Readable) =>
        \A i \in DOMAIN result :
            result[i].Style_Merch_Season =
                IF page1.style_code # None
                THEN "STYLE " \o page1.style_code \o " " \o Bullet \o " "
                     \o OrEmpty(page1.merch_code) \o OrEmpty(page1.season)
                     \o " " \o Bullet \o " Batch No./"
                ELSE "STYLE UNKNOWN"

-----------------------------------------------------------------------------
(* Claims about the batch date (SpecBatch) *)

DayOf(text) == DigitsToNat(SubSeq(text, 1, 2))
MonthOf(text) == DigitsToNat(SubSeq(text, 4, 5))
YearOf(text) == DigitsToNat(SubSeq(text, 7, 10))

IsCalendarDate(text) ==
    /\ MonthOf(text) \in 1..12
    /\ DayOf(text) >= 1
    /\ DayOf(text) <= DaysInMonth(YearOf(text), MonthOf(text))

\* month and year, as MMYYYY, of the day 20 days before the date: the month
\* before for a day of 20 or lower, December of the year before in January
MonthTwentyDaysBefore(text) ==
    IF DayOf(text) > 20 THEN TwoDigits(MonthOf(text)) \o NatToStr(YearOf(text))
    ELSE IF MonthOf(text) > 1 THEN TwoDigits(MonthOf(text) - 1) \o NatToStr(YearOf(text))
    ELSE "12" \o NatToStr(YearOf(text) - 1)

\* C20: Batch is 'Data e prodhimit: ' and the MMYYYY of the day 20 days
\* before the handover date, UNKNOWN when no date was found or the one found
\* is no calendar date
C20_BatchTwentyDaysBefore ==
    (Extracted /\ Readable) =>
        \A i \in DOMAIN result :
            result[i].Batch =
                "Data e prodhimit: "
                \o (IF page1.handover = None \/ ~IsCalendarDate(page1.handover)
                    THEN "UNKNOWN"
                    ELSE MonthTwentyDaysBefore(page1.handover))

\* a handover on 20 January gave December of the year before
C20_Witness ==
    /\ pc = "extracted"
    /\ page1.handover = "20/01/2025"
    /\ Len(result) = 1
    /\ result[1].Batch = "Data e prodhimit: 122024"

-----------------------------------------------------------------------------
(* Claims about several uploaded files (SpecMulti, SpecOrderId, SpecReread) *)

\* the order ids that the other files give, in upload order
RECURSIVE IdsOf(_)
IdsOf(files) ==
    IF files = <<>> THEN <<>>
    ELSE IF extract_order_id_only(Head(files)).ret = None THEN IdsOf(Tail(files))
    ELSE <<extract_order_id_only(Head(files)).ret>> \o IdsOf(Tail(files))

\* parts with '+' after each but the last
RECURSIVE PlusJoined(_)
PlusJoined(parts) ==
    IF Len(parts) = 1 THEN parts[1] ELSE parts[1] \o "+" \o PlusJoined(Tail(parts))

\* C21: the records come from the first file only; the order ids of the other
\* files, in upload order and without the files that give none, are joined
\* with '+' and appended with a '+' to the Order_ID of every record; with no
\* such id the Order_ID is that of the first file as it is
C21_OtherOrderIdsAppended ==
    pc = "enriched" =>
        /\ Len(df) = Len(result)
        /\ Len(df) = Min(Len(FindDigitTokens(page3, 8, 1)), Len(FindDigitTokens(page3, 13, 1)))
        /\ \A i \in DOMAIN df :
              /\ result[i].Order_ID = StrippedOrUnknown(page1.order_id)
              /\ df[i].Order_ID =
                    IF IdsOf(others) = <<>> THEN result[i].Order_ID
                    ELSE result[i].Order_ID \o "+" \o PlusJoined(IdsOf(others))

\* two other files with an id around one without: both ids were appended
C21_Witness ==
    /\ pc = "enriched"
    /\ Len(others) = 2
    /\ others[1].page1 = "order - id .. ef-7\n"
    /\ others[2].page1 = "Order - ID .......... CD456\n"
    /\ page1.order_id = "AB123"
    /\ Len(df) = 2
    /\ \A i \in DOMAIN df : df[i].Order_ID = "AB123+ef-7+CD456"

\* the label with its dots stands in the text, in any case of its letters
LabelOccurs(text) == \E i \in 1..Len(text) : LabelAt(lower(text), i, <<"order", "-", "id">>) # 0

\* C22: for a page-1 text with the label, extract_order_id_only gives what
\* the full parse stores as Order_ID for the same text
C22_SameOrderIdAsFullParse ==
    (pc = "order_id_done" /\ file.readable /\ file.pages >= 1 /\ LabelOccurs(file.page1)) =>
        StrippedOrUnknown(file_ret)
            = StrippedOrUnknown(SearchField(file.page1, <<"Order", "-", "ID">>, "line"))

C23_ReadFromStartPositionKept ==
    [][(pc = "start" /\ pc' = "extracted") =>
          /\ file_pos' = file_pos
          /\ (doc.readable /\ doc.pages >= 3) => ~no_result']_vars

-----------------------------------------------------------------------------
(* Claims about the price block of a pass (SpecUpload) *)

\* float() of the text in the PLN input, ',' read as '.'
EnteredPrice == ParseFloat(Replace(widgets["pepco_pln_price"], ",", "."))

NothingEntered == strip(widgets["pepco_pln_price"]) = ""

NotANumber == ~NothingEntered /\ EnteredPrice.exc # ""

NegativeNumber ==
    /\ ~NothingEntered
    /\ EnteredPrice.exc = ""
    /\ EnteredPrice.ret.kind \in {"float", "inf"}
    /\ EnteredPrice.ret.n < 0

\* the sheet rows whose PLN cell is the entered price
MatchedRows ==
    IF NothingEntered \/ NotANumber \/ NegativeNumber THEN {}
    ELSE { r \in SheetRows : price_sheet["PLN"][r] = EnteredPrice.ret }

\* C24: a CSV export is offered in a pass only if in that pass a PLN price was
\* entered, parsed as a non-negative number and found by the lookup; with no
\* price or a failed lookup no export is offered; and in an offered export
\* every record carries the currency values of the matched sheet row and PLN
\* equal to format_number of the entered price.
C24_ExportOnlyWithMatchedRow ==
    /\ csv_offered =>
          /\ MatchedRows # {}
          /\ \A i \in DOMAIN df :
                /\ df[i]["PLN"] = format_number(EnteredPrice.ret, "PLN").ret
                /\ \A c \in {"EUR", "CZK"} :
                      df[i][c] = format_number(price_sheet[c][Least(MatchedRows)], c).ret
    /\ (pc = "enriched" /\ MatchedRows = {}) => ~csv_offered

\* C25: a PLN input that is not a number after ',' is replaced with '.', or
\* that is negative, draws one validation message and is handled as no price:
\* no lookup result (neither an export nor the not-found warning), no price
\* columns, no exception; a blank input draws no message at all.
C25_InvalidPriceRejected ==
    /\ ((NotANumber \/ NegativeNumber) /\ pc \in {"enriched", "crashed"}) =>
          /\ pc = "enriched"
          /\ pln_messages =
                (IF NotANumber THEN <<"Please enter a valid number like 12.50 or 12,50">>
                 ELSE <<"Price can't be negative.">>)
          /\ ~csv_offered
          /\ \A i \in DOMAIN df : "PLN" \notin DOMAIN df[i]
    /\ (NothingEntered /\ pc \in {"enriched", "crashed"}) =>
          pc = "enriched" /\ pln_messages = <<>> /\ ~csv_offered

\* A pass with '-0,5' in the PLN input drew the message for a negative price
\* over its two records and offered nothing.
C25_Witness ==
    /\ pc = "enriched"
    /\ widgets["pepco_pln_price"] = "-0,5"
    /\ pln_messages = <<"Price can't be negative.">>
    /\ Len(df) = 2
    /\ ~csv_offered

-----------------------------------------------------------------------------
(* Claims about the two classification functions together (SpecClassify) *)

\* C28: for every item classification, get_classification_type returns a
\* category code exactly when get_dept_value returns a department; a
\* classification without department leaves every collection unrecoded, and
\* one with a department has a category code that is a key of
\* COLLECTION_MAPPING.
C28_CategoryIffDept ==
    pc = "classified" =>
        /\ class_type # None <=> dept # ""
        /\ dept # "" => class_type \in DOMAIN COLLECTION_MAPPING
        /\ dept = "" =>
              \A c \in {"CROCO CLUB", "Rainbow Girl", "DINO FRIENDS", "PORCELAIN", "DAISY"} :
                 RecodeCollection(c, class_type) = c

\* 'womens outerwear' holds the phrase 'mens outerwear': it got the category
\* code 'b' and the department MEN.
C28_Witness ==
    /\ pc = "classified"
    /\ item_class = "womens outerwear"
    /\ class_type = "b"
    /\ dept = "MEN"

-----------------------------------------------------------------------------
(* Claims about the material compositions of a pass (SpecCompose) *)

RECURSIVE LeadingNumber(_, _, _)
\* the number that the digits of text from position i on spell, after acc
LeadingNumber(text, i, acc) ==
    IF i > Len(text) \/ ~IsDigit(CharAt(text, i)) THEN acc
    ELSE LeadingNumber(text, i + 1,
                       10 * acc + (CHOOSE d \in 0..9 : CharAt(Digits, d + 1) = CharAt(text, i)))

\* the composition inputs that the pass has drawn
CompositionInputs == { k \in rendered : \E i \in 1..2 : k = CompositionKey(i) }

RECURSIVE SumOfPercentages(_)
\* the sum of the percentages entered into the inputs of keys
SumOfPercentages(keys) ==
    IF keys = {} THEN 0
    ELSE LET k == CHOOSE x \in keys : TRUE
         IN LeadingNumber(widgets[k], 1, 0) + SumOfPercentages(keys \ {k})

\* C26: the composition percentages entered for one record set never sum to
\* more than 100 where a label or an export is made: a pass whose entries sum
\* to more than 100 produces no product_name label and offers no export.
C26_CompositionSumAtMost100 ==
    (pc = "enriched" /\ SumOfPercentages(CompositionInputs) > 100) =>
        /\ ~csv_offered
        /\ \A i \in DOMAIN df : df[i].product_name = ""

-----------------------------------------------------------------------------
(* Claims about the records of one pass together (SpecClock) *)

\* the rows agree on every column but barcode and Colour_SKU
AgreeOnSharedColumns(rows) ==
    \A i, j \in DOMAIN rows :
        \A c \in DOMAIN rows[i] \ {"barcode", "Colour_SKU"} : rows[i][c] = rows[j][c]

\* C29: all records of one pass over one document agree on every column
\* except barcode and Colour_SKU, today_date among them, and after enrichment
\* also on Dept, Cotton, product_name, washing_code and the currency values;
\* each record's Colour_SKU is its own Colour, the bullet, 'SKU' and its sku.
C29_RecordsAgree ==
    /\ Extracted =>
          /\ AgreeOnSharedColumns(result)
          /\ \A i \in DOMAIN result :
                result[i].Colour_SKU = result[i].Colour \o " " \o Bullet \o " SKU " \o skus[i]
    /\ pc = "enriched" =>
          /\ AgreeOnSharedColumns(df)
          /\ \A i \in DOMAIN df :
                {"Dept", "Cotton", "product_name", "washing_code"} \subseteq DOMAIN df[i]

-----------------------------------------------------------------------------
(* Claims about the password gate (SpecAuth) *)

ConfiguredPassword == Expected(app_password, env_password)

\* what st.session_state can hold under the two keys
SessionStates ==
    [ password_correct : {None, "True", "False"}, password : {None} \cup PasswordTexts ]

\* pepco_section has run in the current rerun
SectionRan == pc \in {"extracted", "enriched", "crashed"}

\* C30: over any sequence of reruns and password submissions of a session,
\* pepco_section runs only in a rerun where check_password returned True;
\* check_password returns True only with a password configured and the
\* session flag set by a submission of exactly the configured password; a
\* wrong submission sets the flag to False; and without a configured
\* password access is denied in every rerun, whatever the session state holds.
C30_PasswordGate ==
    /\ [](/\ SectionRan => check_password(ConfiguredPassword, session_state)
          /\ check_password(ConfiguredPassword, session_state) =>
                /\ ConfiguredPassword # None
                /\ session_state.password_correct = "True"
                /\ submitted # <<>>
                /\ submitted[Len(submitted)] = ConfiguredPassword
          /\ ConfiguredPassword = None => ~SectionRan
          /\ \A state \in SessionStates : ~check_password(None, state))
    /\ [][/\ (pc = "start" /\ pc' # "start" /\ pc' # "stopped") =>
                check_password(ConfiguredPassword, session_state)
          /\ (submitted' # submitted /\ submitted'[Len(submitted')] # ConfiguredPassword) =>
                session_state'.password_correct = "False"
          /\ (submitted' # submitted /\ submitted'[Len(submitted')] = ConfiguredPassword) =>
                session_state'.password_correct = "True"]_vars

\* With only the environment variable set, 'guess' was refused and 'envpw'
\* opened the section, which then exported the records.
C30_Witness ==
    /\ pc = "enriched"
    /\ app_password = None
    /\ env_password = "envpw"
    /\ submitted = <<"guess", "envpw">>
    /\ session_state.password_correct = "True"
    /\ csv_offered

=============================================================================
